---- MODULE Spec2Model ----
(***************************************************************************)
(* twspace-crawler: the per-broadcast watch loop (SpaceWatcher) and the    *)
(* capture job it drives (SpaceDownloader).                                *)
(*                                                                         *)
(* One SpaceWatcher is modelled.  Every handler of the event loop (a timer *)
(* callback, the completion of a network request, an event of a child      *)
(* process or of the caption stream) is one action; the outcome of the     *)
(* request or process is an input of the action.  A handler runs up to the *)
(* point where the code awaits the next external event.                    *)
(***************************************************************************)
EXTENDS Integers, Sequences, FiniteSets, Bags, TLC

(* ------------------------------ bounds --------------------------------- *)
MaxChunk == 4       \* chunk sequence numbers of a playlist are 0..MaxChunk
MaxCount == 2       \* history counters saturate here
MaxCues == 1        \* a caption file holds at most this many cues

(* --------------------------- program constants ------------------------- *)
\* imported from constants/app.constant.  The retry limit takes the value of
\* the specification's Scenario B; the intervals are kept symbolic.
APP_PLAYLIST_CHUNK_VERIFY_MAX_RETRY == 1
APP_PLAYLIST_REFRESH_INTERVAL == "APP_PLAYLIST_REFRESH_INTERVAL"
APP_SPACE_ERROR_RETRY_INTERVAL == "APP_SPACE_ERROR_RETRY_INTERVAL"

\* the value of a field that was never assigned
Undefined == "undefined"
\* the same for a numeric field (lastChunkIndex: number, not initialised)
Unset == -1

\* AudioSpaceMetadataState
MetadataState == {"NotStarted", "Running", "Ended"}
Rank(s) == CASE s = "NotStarted" -> 1 [] s = "Running" -> 2 [] s = "Ended" -> 3
             [] OTHER -> 0

\* outcomes of TwitterApi.getAudioSpaceById: a state, a transient failure,
\* or the upstream rejecting the guest token (error code 239)
MetadataOutcome == MetadataState \cup {"error", "error239"}

\* A broadcast does not go back to an earlier lifecycle state.
MetadataFollows(prev, out) == out \notin MetadataState \/ Rank(out) >= Rank(prev)

(* ------------------------------ playlists ------------------------------ *)
\* A playlist text is a sequence of lines; a chunk line carries the digits
\* that follow the literal "chunk" token, any other line is [chunk |-> -1].
ChunkLine(n) == [chunk |-> n]
OtherLine == [chunk |-> 0 - 1]

Window(lo, hi) == <<OtherLine>> \o [i \in 1..(hi - lo + 1) |-> ChunkLine(lo + i - 1)]

\* the empty text, a text without chunk lines, and the texts whose chunks
\* are numbered lo..hi, the numbering starting at 0 or at 1
PlaylistTexts ==
    {<<>>, <<OtherLine>>} \cup
    {Window(lo, hi) : lo \in 0..1, hi \in 0..MaxChunk}

\* the responses to a playlist request: a text, or one of the failures
Responses(failures) ==
    {[status |-> "ok", data |-> t] : t \in PlaylistTexts} \cup
    {[status |-> f, data |-> <<>>] : f \in failures}

\* PeriscopeUtil.getChunks: the chunk sequence numbers of a playlist text
RECURSIVE getChunks(_)
getChunks(data) ==
    IF data = <<>> THEN <<>>
    ELSE IF Head(data).chunk >= 0
         THEN <<Head(data).chunk>> \o getChunks(Tail(data))
         ELSE getChunks(Tail(data))

\* Math.max(...chunkIndexes), for a non-empty list
RECURSIVE MathMax(_)
MathMax(s) ==
    IF Len(s) = 1 THEN s[1]
    ELSE LET m == MathMax(Tail(s)) IN IF s[1] >= m THEN s[1] ELSE m

(* --------------------------- caption scanning -------------------------- *)
\* Texts are sequences of one-character strings.
UpperCase == <<"A","B","C","D","E","F","G","H","I","J","K","L","M",
               "N","O","P","Q","R","S","T","U","V","W","X","Y","Z">>
LowerCase == <<"a","b","c","d","e","f","g","h","i","j","k","l","m",
               "n","o","p","q","r","s","t","u","v","w","x","y","z">>

\* case folding of the 'i' flag
LowerOf == [ch \in {UpperCase[i] : i \in 1..Len(UpperCase)} |->
               LowerCase[CHOOSE i \in 1..Len(UpperCase) : UpperCase[i] = ch]]
Lower(ch) == IF ch \in DOMAIN LowerOf THEN LowerOf[ch] ELSE ch

\* the keyword table: raw holds the alternatives of the pattern in order,
\* fmt the canonical tag
keywords ==
    <<
       [raw |-> << <<"N","J","F">>,
                   <<"N"," ","J"," ","F">> >>,
        fmt |-> <<"N","J","F">>],
       [raw |-> << <<"F","u","e","n","t","e","s">>,
                   <<"N","i","c","k"," ","F","u","e","n","t","e","s">>,
                   <<"N","i","c","h","o","l","a","s"," ","F","u","e","n","t","e","s">>,
                   <<"N","i","c","h","o","l","a","s"," ","J"," ","F","u","e","n","t","e","s">> >>,
        fmt |-> <<"N","i","c","k"," ","F","u","e","n","t","e","s">>],
       [raw |-> << <<"A","F","P","A","C">>,
                   <<"A","F","P","A","K">>,
                   <<"F"," ","P","a","c","k">> >>,
        fmt |-> <<"A","F","P","A","C">>],
       [raw |-> << <<"g","r","o","y","p","e","r">>,
                   <<"g","r","o","y","p","u","r">>,
                   <<"g","r","o","i","p","p","e","r">>,
                   <<"g","r","o","i","p","e","r">>,
                   <<"g","r","o","u","p","e","r">>,
                   <<"g","r","i","p","p","e","r">>,
                   <<"g","r","a","p","e","r">>,
                   <<"g","r","i","p","e","r">>,
                   <<"c","r","i","p","e","r">> >>,
        fmt |-> <<"g","r","o","y","p","e","r">>],
       [raw |-> << <<"C","o","z","y"," ","T","V">>,
                   <<"C","o","z","y"," ","D","o","t"," ","T","V">>,
                   <<"C","o","z","y","T","V">> >>,
        fmt |-> <<"c","o","z","y",".","t","v">>],
       [raw |-> << <<"B","r","o","n","z","e"," ","A","g","e">> >>,
        fmt |-> <<"B","r","o","n","z","e"," ","A","g","e">>],
       [raw |-> << <<"C","l","a","r","e","m","o","n","t">>,
                   <<"C","l","a","i","r","m","o","n","t">>,
                   <<"C","l","a","r","e","m","o","u","n","t">> >>,
        fmt |-> <<"C","l","a","r","e","m","o","n","t">>],
       [raw |-> << <<"N","a","t","i","o","n","a","l"," ","C","o","n","s","e","r","v","a","t","i","s","m">>,
                   <<"N","a","t","i","o","n","a","l"," ","C","o","n","s","e","r","v","a","t","i","v","e">>,
                   <<"N","a","t","C","o","n">>,
                   <<"N","a","c","o","n">>,
                   <<"N","a","k","o","n">> >>,
        fmt |-> <<"N","a","t","C","o","n">>],
       [raw |-> << <<"W","h","e","r","e","'","s"," ","m","y"," ","k","e","y","s">>,
                   <<"W","h","e","r","e"," ","i","s"," ","m","y"," ","k","e","y","s">>,
                   <<"W","h","e","r","e"," ","a","r","e"," ","m","y"," ","k","e","y","s">> >>,
        fmt |-> <<"A","C","T","I","V","A","T","I","O","N"," ","P","H","R","A","S","E">>],
       [raw |-> << <<"G","o","o","s","e">> >>,
        fmt |-> <<"G","o","o","s","e">>],
       [raw |-> << <<"S","p","o","o","d","s">>,
                   <<"S","p","o","o","n","s">>,
                   <<"S","p","o","o","d","z">>,
                   <<"S","p","o","o","z">>,
                   <<"S","p","u","z">>,
                   <<"S","p","o","o","s">> >>,
        fmt |-> <<"S","p","o","o","d","s">>],
       [raw |-> << <<"C","h","i","e","f"," ","T","r","u","m","p","s","t","e","r">>,
                   <<"C","h","i","e","f"," ","T","r","u","m","p">>,
                   <<"C","h","i","e","f"," ","C","h","u","m","s","t","e","r">> >>,
        fmt |-> <<"C","h","i","e","f"," ","T","r","u","m","p","s","t","e","r">>]
    >>

\* '__**' + keyword.format + '**__'
Markup(fmt) == <<"_","_","*","*">> \o fmt \o <<"*","*","_","_">>

MinOf(S) == CHOOSE x \in S : \A y \in S : x <= y

\* (mutant) the pattern is built without the 'i' flag
MatchAt_CaseSensitive(alias, text, i) ==
    /\ i + Len(alias) - 1 <= Len(text)
    /\ \A k \in 1..Len(alias) : text[i + k - 1] = alias[k]

\* alternative alias matches text at position i (1-based), ignoring case
MatchAt(alias, text, i) ==
    /\ i + Len(alias) - 1 <= Len(text)
    /\ \A k \in 1..Len(alias) : Lower(text[i + k - 1]) = Lower(alias[k])

\* length of the first alternative of raw that matches at i, 0 if none does
AltAt(raw, text, i) ==
    LET S == {a \in 1..Len(raw) : MatchAt(raw[a], text, i)}
    IN IF S = {} THEN 0 ELSE Len(raw[MinOf(S)])

\* RegExp.prototype.test of a 'g' pattern: the search starts at lastIndex
\* (0-based); a match leaves lastIndex at its end, a failure resets it
RegExpTest(raw, text, lastIndex) ==
    LET P == {i \in (lastIndex + 1)..Len(text) : AltAt(raw, text, i) > 0}
    IN IF P = {} THEN [found |-> FALSE, lastIndex |-> 0]
       ELSE LET m == MinOf(P)
            IN [found |-> TRUE, lastIndex |-> m - 1 + AltAt(raw, text, m)]

\* String.prototype.replaceAll with a 'g' pattern: every match from the
\* start of the text, left to right, not overlapping
RECURSIVE ReplaceFrom(_, _, _, _)
ReplaceFrom(raw, text, i, repl) ==
    IF i > Len(text) THEN <<>>
    ELSE LET n == AltAt(raw, text, i)
         IN IF n > 0
            THEN repl \o ReplaceFrom(raw, text, i + n, repl)
            ELSE <<text[i]>> \o ReplaceFrom(raw, text, i + 1, repl)

replaceAll(text, raw, repl) == ReplaceFrom(raw, text, 1, repl)

\* the characters that node.data.text.replace(..., '') removes ("backquote"
\* stands for the backquote character)
NonText == {".", ",", "#", "!", "^", ";", ":", "{", "}", "=", "_", "backquote", "~", "(", ")"}
StripNonText(text) == SelectSeq(text, LAMBDA ch : ch \notin NonText)

\* (mutant) the replacement leaves lastIndex at the end of the match found
\* by test()
RECURSIVE ScanKeywords_KeepsLastIndex(_, _)
ScanKeywords_KeepsLastIndex(acc, k) ==
    IF k > Len(keywords) THEN acc
    ELSE LET t == RegExpTest(keywords[k].raw, acc.text, acc.lastIndex[k])
         IN IF t.found
            THEN ScanKeywords_KeepsLastIndex(
                   [text |-> replaceAll(acc.text, keywords[k].raw, Markup(keywords[k].fmt)),
                    matched |-> acc.matched + 1,
                    lastIndex |-> [acc.lastIndex EXCEPT ![k] = t.lastIndex]], k + 1)
            ELSE ScanKeywords_KeepsLastIndex(
                   [acc EXCEPT !.lastIndex = [acc.lastIndex EXCEPT ![k] = t.lastIndex]],
                   k + 1)

\* keywords.forEach of one cue: acc is [text, matched, lastIndex], lastIndex
\* being the lastIndex of every pattern of the table
RECURSIVE ScanKeywords(_, _)
ScanKeywords(acc, k) ==
    IF k > Len(keywords) THEN acc
    ELSE LET t == RegExpTest(keywords[k].raw, acc.text, acc.lastIndex[k])
         IN IF t.found
            THEN ScanKeywords(
                   [text |-> replaceAll(acc.text, keywords[k].raw, Markup(keywords[k].fmt)),
                    matched |-> acc.matched + 1,
                    lastIndex |-> [acc.lastIndex EXCEPT ![k] = 0]], k + 1)
            ELSE ScanKeywords(
                   [acc EXCEPT !.lastIndex = [acc.lastIndex EXCEPT ![k] = t.lastIndex]],
                   k + 1)

CaptionPhrase(ts, text) == [ts |-> ts, text |-> text]

\* the cue texts of the caption files
CueTexts ==
    { <<"s","a","i","d"," ","A","F","P","A","C"," ","t","o","d","a","y">>,
      <<"h","e","l","l","o",".">> }

\* a caption file: cue i starts at 2000 * (i - 1) ms and lasts 2000 ms
Cue(i, text) == [type |-> "cue", start |-> 2000 * (i - 1), end |-> 2000 * i, text |-> text]
CaptionFiles ==
    UNION { { [i \in 1..n |-> Cue(i, f[i])] : f \in [1..n -> CueTexts] } : n \in 0..MaxCues }

\* Date.now() when download_audio starts ffmpeg, Date.now() when a caption
\* scan starts, and metadata.started_at || created_at
CaptureClock == {3000}
Clock == {5000}
StartedAt == {0, 1000}

(* --------------------------- UserListWatcher --------------------------- *)
\* The watcher of a list of users: its constructor cuts the user names into
\* chunks, watch() looks the users up and starts one getSpaces loop for the
\* ids of each chunk.
MaxUsernames == 3       \* the watcher is given at most this many user names
MaxWatchFailures == 2   \* the lookup of watch() fails at most this many times
CHUNK_SIZE == 2         \* user names of one request (100 in the code)

\* user names as they are given to the watcher, and the accounts that exist
Usernames == { <<"a","b">>, <<"C">>, <<"x">> }
Accounts == << [id_str |-> "1", screen_name |-> <<"A","b">>],
               [id_str |-> "2", screen_name |-> <<"c">>] >>

\* String.prototype.toLowerCase
toLowerCase(str) == [i \in 1..Len(str) |-> Lower(str[i])]

\* [...Array(Math.ceil(length / CHUNK_SIZE))].map(() => usernames.splice(0, CHUNK_SIZE))
usernameChunks(usernames) ==
    [k \in 1..((Len(usernames) + CHUNK_SIZE - 1) \div CHUNK_SIZE) |->
        SubSeq(usernames, (k - 1) * CHUNK_SIZE + 1,
               IF k * CHUNK_SIZE < Len(usernames) THEN k * CHUNK_SIZE
               ELSE Len(usernames))]

\* the answers of TwitterApi.getUsersLookup to one chunk of user names
LookupResponses == { <<>>, <<Accounts[2]>>, Accounts }

\* what find() returns when no user matches: its id is filtered out
NoUser == [id |-> "", username |-> <<>>]

\* this.users.find((user) => user.username.toLowerCase() === username.toLowerCase())
RECURSIVE find(_, _)
find(users, username) ==
    IF users = <<>> THEN NoUser
    ELSE IF toLowerCase(Head(users).username) = toLowerCase(username)
         THEN Head(users)
         ELSE find(Tail(users), username)

\* chunk.map((username) => find(...)?.id).filter((v) => v)
RECURSIVE idChunk(_, _)
idChunk(chunk, users) ==
    IF chunk = <<>> THEN <<>>
    ELSE LET id == find(users, Head(chunk)).id
         IN (IF id = "" THEN <<>> ELSE <<id>>) \o idChunk(Tail(chunk), users)

\* the users pushed by initUsers from the responses, in the order of the chunks
RECURSIVE pushUsers(_)
pushUsers(responses) ==
    IF responses = <<>> THEN <<>>
    ELSE [i \in 1..Len(Head(responses)) |->
             [id |-> Head(responses)[i].id_str,
              username |-> Head(responses)[i].screen_name]]
         \o pushUsers(Tail(responses))

\* the failure of a lookup: the status of the response ("none": no response)
\* and Number(headers['x-rate-limit-reset']), in seconds, NaN without header
NoError == [status |-> "ok", reset |-> [nan |-> TRUE, n |-> 0]]
LookupErrors ==
    {[status |-> st, reset |-> [nan |-> nan, n |-> n]] :
        st \in {"429", "500", "none"}, nan \in BOOLEAN, n \in {0, 1, 8}}
UserListClock == {500, 1500}     \* Date.now() in the catch block of watch()

\* the delay of the retry of watch()
timeoutMs(error, now) ==
    LET xRateLimitReset == error.reset.n * 1000
    IN IF error.status = "429" /\ ~error.reset.nan /\ xRateLimitReset # 0
       THEN MathMax(<<xRateLimitReset - now, 5000>>)
       ELSE 5000

\* the answers of TwitterApi.getSpacesByCreatorIds: a failure, a body without
\* data, a list of spaces
SpacesResponses ==
    { [status |-> "error", data |-> <<>>],
      [status |-> "nodata", data |-> <<>>],
      [status |-> "ok", data |-> <<>>],
      [status |-> "ok", data |-> <<[id |-> "s1", state |-> "ended"]>>],
      [status |-> "ok", data |-> <<[id |-> "s1", state |-> "live"],
                                   [id |-> "s2", state |-> "ended"],
                                   [id |-> "s3", state |-> "live"]>>] }

\* a pending continuation of the list watcher: watch(), or getSpaces(ids) of
\* chunk k; ms is "call" for a direct call that waits for its request
UserListCont(fn, k, ids, ms) == [fn |-> fn, k |-> k, ids |-> ids, ms |-> ms]

UserListFx0(op) ==
    [op |-> op, k |-> 0, ids |-> <<>>, failed |-> FALSE, timeoutMs |-> 0,
     emitted |-> <<>>, calls |-> EmptyBag, timers |-> EmptyBag]

\* new UserListWatcher(usernames); started counts the getSpaces loops that
\* watch() has started for each chunk, failures the failed passes of watch()
UserListWatcher(usernames) ==
    [usernameChunks |-> usernameChunks(usernames), users |-> <<>>,
     pending |-> EmptyBag,
     started |-> [k \in 1..Len(usernameChunks(usernames)) |-> 0],
     failures |-> 0, fx |-> UserListFx0("constructor")]

\* the list watcher of a process that watches no user list
NoUserList == UserListWatcher(<<>>)

\* setTimeout of the list watcher
UserListSetTimeout(u, t) ==
    [u EXCEPT !.pending = @ (+) SetToBag({t}), !.fx.timers = @ (+) SetToBag({t})]

\* idChunks.forEach((idChunk) => this.getSpaces(idChunk)), from chunk k on:
\* each call runs up to its request
RECURSIVE forEachGetSpaces(_, _, _)
forEachGetSpaces(u, idChunks, k) ==
    IF k > Len(idChunks) THEN u
    ELSE LET t == UserListCont("getSpaces", k, idChunks[k], "call")
         IN forEachGetSpaces([u EXCEPT !.pending = @ (+) SetToBag({t}),
                                       !.fx.calls = @ (+) SetToBag({t}),
                                       !.started[k] = @ + 1],
                             idChunks, k + 1)

\* (mutant) the loops are started before the lookup is awaited, so that a
\* pass of watch() that fails has started them as well
UserListWatcher_watch_StartsBeforeLookup(u, error, responses, now) ==
    LET idChunksOf(users) ==
            [k \in 1..Len(u.usernameChunks) |-> idChunk(u.usernameChunks[k], users)]
    IN IF error.status = "ok"
       THEN forEachGetSpaces([u EXCEPT !.users = pushUsers(responses)],
                             idChunksOf(pushUsers(responses)), 1)
       ELSE UserListSetTimeout(
                forEachGetSpaces([u EXCEPT !.fx.failed = TRUE, !.failures = @ + 1,
                                           !.fx.timeoutMs = timeoutMs(error, now)],
                                 idChunksOf(u.users), 1),
                UserListCont("watch", 0, <<>>, "timeoutMs"))

\* watch() once initUsers has settled: with the responses of the lookups, or
\* with the error of the one that failed
UserListWatcher_watch(u, error, responses, now) ==
    IF error.status = "ok"
    THEN LET u1 == [u EXCEPT !.users = pushUsers(responses)]
             idChunks == [k \in 1..Len(u.usernameChunks) |->
                             idChunk(u.usernameChunks[k], u1.users)]
         IN forEachGetSpaces(u1, idChunks, 1)
    ELSE UserListSetTimeout([u EXCEPT !.fx.failed = TRUE, !.failures = @ + 1,
                                      !.fx.timeoutMs = timeoutMs(error, now)],
                            UserListCont("watch", 0, <<>>, "timeoutMs"))

\* the ids of the spaces of a response that are live
RECURSIVE liveSpaces(_)
liveSpaces(spaces) ==
    IF spaces = <<>> THEN <<>>
    ELSE (IF Head(spaces).state = "live" THEN <<Head(spaces).id>> ELSE <<>>)
         \o liveSpaces(Tail(spaces))

\* getSpaces(ids) of continuation t once its request has settled; throws: a
\* listener of 'data' throws at the first emit
UserListWatcher_getSpaces(u, t, resp, throws) ==
    LET live == liveSpaces(IF resp.status = "ok" THEN resp.data ELSE <<>>)
        thrown == throws /\ Len(live) >= 1
        u1 == [u EXCEPT !.fx.k = t.k, !.fx.ids = t.ids,
                        !.fx.emitted = IF thrown THEN <<live[1]>> ELSE live,
                        !.fx.failed = resp.status = "error" \/ thrown]
    IN UserListSetTimeout(u1, UserListCont("getSpaces", t.k, t.ids,
                                           "Util.getUserRefreshInterval()"))

(* ------------------------------- state --------------------------------- *)
VARIABLES
    opts,       \* command line options (url, force, notification), started_at
    watcher,    \* the fields of the SpaceWatcher
    job,        \* the SpaceDownloader constructed last
    awaiting,   \* the function of the watcher that awaits job's download()
    pending,    \* bag of continuations of the watcher: timers and requests
    peer,       \* the SpaceDownloader of another watcher of the same process
    lastIndex,  \* lastIndex of every pattern of the keyword table
    hist,       \* history: saturating counters over the whole watch
    lastOp,     \* history: the handler that ran last and what it did
    userList    \* the UserListWatcher of the process

vars == <<opts, watcher, job, awaiting, pending, peer, lastIndex, hist, lastOp,
          userList>>

Sat(n) == IF n < MaxCount THEN n + 1 ELSE n

\* a pending continuation: the function to run and the delay it was set with
\* ("call": invoked directly, waiting for its first request to complete)
Cont(fn, ms) == [fn |-> fn, ms |-> ms]

\* path.join(directory, filename + '.ogg'), the filename being
\* watcher.filename + (live ? '-live' : '')
AudioFile(live) == IF live THEN "filename-live.ogg" ELSE "filename.ogg"

\* new SpaceDownloader(originUrl, filename, subDir, started_at, metadata);
\* pc is the event download() waits for; ffmpegArgs and whisperArgs are the
\* arguments the processes were spawned with
SpaceDownloader(live, started_at) ==
    [live |-> live, timeStarted |-> started_at,
     playlistUrl |-> "originUrl", ffmpegArgs |-> <<>>, whisperArgs |-> <<>>,
     ffmpegFile |-> AudioFile(live),
     pc |-> "new", result |-> "none",
     ffmpeg |-> "pending", whisper |-> "pending", captions |-> "pending",
     phrases |-> <<>>,
     ms_space_elapsed |-> 0, stream |-> <<>>, scanned |-> <<>>, phrases_matched |-> 0,
     file |-> <<>>, capturedAt |-> 0,
     closeDue |-> "none",
     ffmpegExit |-> "none", whisperExit |-> "none", whisperSpawned |-> FALSE]

\* the job slot after "watcher.downloader = undefined": the SpaceDownloader
\* is no longer referenced
NoJob == [SpaceDownloader(FALSE, 0) EXCEPT !.pc = "none"]

Fx0(op) ==
    [op |-> op, fetch |-> "none", masterChunkSize |-> 0 - 1, result |-> "none",
     returned |-> NoJob, metadata |-> <<>>,
     calls |-> EmptyBag, timers |-> EmptyBag, jobStarted |-> "none",
     webhooks |-> <<>>, failures |-> {}, noChunks |-> FALSE]

\* The context a handler runs in: the state it reads and writes, what it did
\* (fx), whether an exception is propagating (err), and Date.now().
Ctx(op) ==
    [w |-> watcher, job |-> job, awaiting |-> awaiting, pending |-> pending,
     lastIndex |-> lastIndex, hist |-> hist, fx |-> Fx0(op), err |-> FALSE,
     now |-> 0]

Commit(c) ==
    /\ watcher' = c.w
    /\ job' = c.job
    /\ awaiting' = c.awaiting
    /\ pending' = c.pending
    /\ lastIndex' = c.lastIndex
    /\ hist' = c.hist
    /\ lastOp' = c.fx
    /\ UNCHANGED <<opts, peer, userList>>

\* record that fn was called in this handler
Call(c, fn) == [c EXCEPT !.fx.calls = @ (+) SetToBag({fn})]

Failed(c, what) == [c EXCEPT !.fx.failures = @ \cup {what}]

\* setTimeout(() => this.fn(), ms)
setTimeout(c, fn, ms) ==
    [c EXCEPT !.pending = @ (+) SetToBag({Cont(fn, ms)}),
              !.fx.timers = @ (+) SetToBag({Cont(fn, ms)})]

\* a direct, un-awaited call of an async function: it runs to its first request
Invoke(c, fn) ==
    [Call(c, fn) EXCEPT !.pending = @ (+) SetToBag({Cont(fn, "call")})]

checkDynamicPlaylistWithTimer(c) ==
    setTimeout(c, "checkDynamicPlaylist", APP_PLAYLIST_REFRESH_INTERVAL)

checkMasterPlaylistWithTimer(c) ==
    setTimeout(c, "checkMasterPlaylist", APP_PLAYLIST_REFRESH_INTERVAL)

\* the catch block of watch()
watchRetry(c) ==
    setTimeout([c EXCEPT !.err = FALSE], "watch", APP_SPACE_ERROR_RETRY_INTERVAL)

(* ------------------------------ SpaceWatcher --------------------------- *)
\* TwitterApi.getAudioSpaceById was requested and answered out
Requested(c, out) ==
    [Call(c, "getSpaceMetadata") EXCEPT !.fx.metadata = Append(@, out)]

\* (mutant) the guest token is refreshed after every failed request
getSpaceMetadata_RefreshOnAnyError(c, out) ==
    IF out \in MetadataState
    THEN [Requested(c, out) EXCEPT !.w.metadata = out,
                                   !.w.detected_phrases = <<>>]
    ELSE [Call(Failed(Requested(c, out), "metadata"), "getGuestToken(true)")
             EXCEPT !.err = TRUE]

\* getSpaceMetadata with the outcome out of TwitterApi.getAudioSpaceById.
\* this.audioSpace is replaced as a whole, detected_phrases included.
getSpaceMetadata(c, out) ==
    IF out \in MetadataState
    THEN [Requested(c, out) EXCEPT !.w.metadata = out,
                                   !.w.detected_phrases = <<>>]
    ELSE LET c1 == Failed(Requested(c, out), "metadata")
             c2 == IF out = "error239" THEN Call(c1, "getGuestToken(true)") ELSE c1
         IN [c2 EXCEPT !.err = TRUE]

showNotification(c) ==
    IF ~opts.notification \/ c.w.isNotificationNotified
    THEN Call(c, "showNotification")
    ELSE [Call(Call(c, "showNotification"), "notify")
            EXCEPT !.w.isNotificationNotified = TRUE,
                   !.hist.notifications = Sat(@)]

\* sendWebhooks(live): new Webhook(audioSpace, ...).send(); the webhook
\* carries audioSpace.detected_phrases and the file name of the audio
sendWebhooks(c, live) ==
    [Call(c, "sendWebhooks") EXCEPT
        !.fx.webhooks = Append(@, [live |-> live, captions |-> c.w.detected_phrases,
                                   audioFile |-> AudioFile(live)]),
        !.hist.webhookSent = @ \/ ~live]

\* (mutant) the webhooks are sent after every successful download
downloadAudio_then_AnySuccess(c, success) ==
    IF success /\ c.w.downloader
    THEN sendWebhooks([c EXCEPT !.w.detected_phrases = c.job.phrases,
                                !.hist.liveKept = @ \/ c.job.live], TRUE)
    ELSE [c EXCEPT !.w.downloader = FALSE, !.job = NoJob]

\* (mutant) the job slot is cleared after the webhooks are sent as well
downloadAudio_then_ClearsAlways(c, success) ==
    IF success /\ c.w.downloader /\ Len(c.job.phrases) >= 1
    THEN [sendWebhooks([c EXCEPT !.w.detected_phrases = c.job.phrases,
                                 !.hist.liveKept = @ \/ c.job.live], TRUE)
             EXCEPT !.w.downloader = FALSE, !.job = NoJob]
    ELSE [c EXCEPT !.w.downloader = FALSE, !.job = NoJob]

\* the .then of downloadAudio: download() resolved with success
downloadAudio_then(c, success) ==
    IF success /\ c.w.downloader /\ Len(c.job.phrases) >= 1
    THEN sendWebhooks([c EXCEPT !.w.detected_phrases = c.job.phrases,
                                !.hist.liveKept = @ \/ c.job.live], TRUE)
    ELSE [c EXCEPT !.w.downloader = FALSE, !.job = NoJob]

\* download() settled: result is "true", "false" (resolved) or "threw"
\* (rejected).  The handler runs the .then of downloadAudio and the rest of
\* the function that awaits it.
downloadSettled(c, result) ==
    LET c1 == [c EXCEPT !.job.pc = "settled", !.job.result = result,
                        !.job.stream = <<>>, !.job.scanned = <<>>,
                        !.job.phrases_matched = 0, !.job.ms_space_elapsed = 0,
                        !.job.file = <<>>, !.job.capturedAt = 0,
                        !.fx.result = result,
                        !.fx.returned = c.job,
                        !.awaiting = "none",
                        !.hist.finalDone = @ \/ (~c.job.live /\ result = "true")]
        c2 == IF result = "threw" THEN Failed(c1, "job")
              ELSE downloadAudio_then(
                     IF result = "false" THEN Failed(c1, "job") ELSE c1,
                     result = "true")
    IN CASE c.awaiting = "processLiveDownload" -> checkDynamicPlaylistWithTimer(c2)
         [] c.awaiting = "processDownload" -> c2
         [] c.awaiting = "initData" -> IF result = "threw" THEN watchRetry(c2) ELSE c2

(* ----------------------------- SpaceDownloader ------------------------- *)
\* (mutant) download() returns true unless the caption scan failed
download_return_UnlessError(c) ==
    downloadSettled(c, IF c.job.captions # "error" THEN "true" ELSE "false")

\* the end of download(): true when the caption scan is complete
download_return(c) ==
    downloadSettled(c, IF c.job.captions = "complete" THEN "true" ELSE "false")

\* process_captions up to its stat() of the caption file
process_captions(c) ==
    [c EXCEPT !.job.captions = "in-progress",
              !.job.ms_space_elapsed =
                  IF c.job.live /\ c.job.timeStarted > 0
                  THEN c.now - c.job.timeStarted ELSE 0,
              !.job.scanned = <<>>, !.job.phrases_matched = 0,
              !.job.pc = "captions.stat"]

\* (mutant) the caption scan starts whatever the transcription status
download_captions_NoOrderCheck(c) ==
    IF c.job.captions = "pending"
    THEN process_captions(c)
    ELSE download_return(c)

\* download() after the transcription stage
download_captions(c) ==
    IF c.job.captions = "pending" /\ c.job.whisper = "complete"
    THEN process_captions(c)
    ELSE download_return(c)

\* transcribe_audio once stat() has found the audio file: whisper is spawned
spawn_whisper(c) ==
    [c EXCEPT !.job.whisperSpawned = TRUE,
              !.job.whisperArgs = <<"--model", IF c.job.live THEN "base.en"
                                               ELSE "small.en">>,
              !.job.pc = "whisper"]

\* transcribe_audio up to its stat() of the audio file
transcribe_audio(c) ==
    [c EXCEPT !.job.whisper = "in-progress", !.job.pc = "whisper.stat"]

\* download() after the extraction stage
download_transcribe(c) ==
    IF c.job.whisper = "pending" /\ c.job.ffmpeg = "complete"
    THEN transcribe_audio(c)
    ELSE download_captions(c)

\* (mutant) the duration limit is passed in both modes
download_audio_AlwaysCapped(c) ==
    [c EXCEPT !.job.ffmpeg = "in-progress", !.job.capturedAt = c.now,
              !.job.ffmpegArgs = <<"-t", "30", "-i", c.job.playlistUrl>>,
              !.job.pc = "ffmpeg"]

\* download_audio up to the spawn of ffmpeg: '-t 30' in live mode only
download_audio(c) ==
    [c EXCEPT !.job.ffmpeg = "in-progress", !.job.capturedAt = c.now,
              !.job.ffmpegArgs = IF c.job.live
                                 THEN <<"-t", "30", "-i", c.job.playlistUrl>>
                                 ELSE <<"-i", c.job.playlistUrl>>,
              !.job.pc = "ffmpeg"]

\* download() once the playlist url is known
download_extract(c) ==
    IF c.job.ffmpeg = "pending" THEN download_audio(c) ELSE download_transcribe(c)

\* download(live) up to its first await
download(c, live) ==
    IF ~live
    THEN [c EXCEPT !.job.pc = "getFinalPlaylistUrl"]
    ELSE download_extract(c)

\* the 'data' handler of the caption stream for one cue
captions_data(c, node) ==
    LET acc == ScanKeywords([text |-> StripNonText(node.text), matched |-> 0,
                             lastIndex |-> c.lastIndex], 1)
    IN [c EXCEPT !.lastIndex = acc.lastIndex,
                 !.job.scanned = Append(@, CaptionPhrase(node.start + c.job.ms_space_elapsed,
                                                         acc.text)),
                 !.job.phrases_matched = @ + acc.matched,
                 !.job.stream = Tail(@)]

\* (mutant) the phrases are kept whether or not a cue matched
captions_finish_KeepsAll(c) ==
    download_return(
        [c EXCEPT !.job.captions = "complete",
                  !.job.phrases = c.job.scanned,
                  !.job.pc = "resolved"])

\* the 'finish' handler of the caption stream
captions_finish(c) ==
    download_return(
        [c EXCEPT !.job.captions = "complete",
                  !.job.phrases = IF c.job.phrases_matched >= 1 THEN c.job.scanned ELSE @,
                  !.job.pc = "resolved"])

(* ------------------------- SpaceWatcher, continued --------------------- *)
\* (mutant) a job is created whether or not the slot is occupied
downloadAudio_IgnoresSlot(c, live, caller) ==
    download(
      [Call(c, "downloadAudio") EXCEPT
          !.w.downloader = TRUE,
          !.job = SpaceDownloader(live, opts.started_at),
          !.awaiting = caller,
          !.fx.jobStarted = IF live THEN "live" ELSE "final",
          !.hist.liveStarted = @ \/ live], live)

downloadAudio(c, live, caller) ==
    IF ~c.w.downloader \/ ~live
    THEN download(
           [Call(c, "downloadAudio") EXCEPT
               !.w.downloader = TRUE,
               !.job = SpaceDownloader(live, opts.started_at),
               !.awaiting = caller,
               !.fx.jobStarted = IF live THEN "live" ELSE "final",
               !.hist.liveStarted = @ \/ live], live)
    ELSE Call(c, "downloadAudio")

\* (mutant) no return after the poll timer is set: a RUNNING broadcast is
\* downloaded as well
processDownload_NoReturnWhenRunning(c, meta) ==
    LET c1 == getSpaceMetadata(Call(c, "processDownload"), meta)
    IN IF c1.err THEN [c1 EXCEPT !.err = FALSE]
       ELSE IF c1.w.metadata = "Running"
       THEN downloadAudio(checkDynamicPlaylistWithTimer(c1), FALSE, "processDownload")
       ELSE downloadAudio(c1, FALSE, "processDownload")

\* processDownload with the outcome meta of its metadata request
\* (mutant) going back to the dynamic polling starts a new retry budget
processDownload_ResetsCount(c, meta) ==
    LET c1 == getSpaceMetadata(Call(c, "processDownload"), meta)
    IN IF c1.err THEN [c1 EXCEPT !.err = FALSE]
       ELSE IF c1.w.metadata = "Running"
       THEN checkDynamicPlaylistWithTimer([c1 EXCEPT !.w.chunkVerifyCount = 0])
       ELSE downloadAudio(c1, FALSE, "processDownload")

processDownload(c, meta) ==
    LET c1 == getSpaceMetadata(Call(c, "processDownload"), meta)
    IN IF c1.err THEN [c1 EXCEPT !.err = FALSE]
       ELSE IF c1.w.metadata = "Running" THEN checkDynamicPlaylistWithTimer(c1)
       ELSE downloadAudio(c1, FALSE, "processDownload")

\* processLiveDownload with the outcome meta of its metadata request
processLiveDownload(c, meta) ==
    LET c1 == getSpaceMetadata(Call(c, "processLiveDownload"), meta)
    IN IF c1.err THEN [c1 EXCEPT !.err = FALSE]
       ELSE IF c1.w.metadata = "Running" THEN downloadAudio(c1, TRUE, "processLiveDownload")
       ELSE c1

\* lastChunkIndex after a poll that found chunkIndexes
newLastChunkIndex(old, chunkIndexes) == MathMax(chunkIndexes)

\* (mutant) the 404 branch does not return: the poll timer is set as well
checkDynamicPlaylist_NoReturnOn404(c, dyn, meta) ==
    IF dyn.status = "404"
    THEN checkDynamicPlaylistWithTimer(
           Invoke([c EXCEPT !.fx.fetch = "404"], "checkMasterPlaylist"))
    ELSE IF dyn.status = "error"
    THEN checkDynamicPlaylistWithTimer(Failed([c EXCEPT !.fx.fetch = "error"], "dynamic"))
    ELSE LET chunkIndexes == getChunks(dyn.data)
             c0 == [c EXCEPT !.fx.fetch = "ok"]
             c1 == IF Len(chunkIndexes) > 0
                   THEN [c0 EXCEPT !.w.lastChunkIndex =
                                      newLastChunkIndex(@, chunkIndexes),
                                   !.hist.lastFound = MathMax(chunkIndexes)]
                   ELSE c0
             c2 == IF Len(chunkIndexes) > 0 /\ c1.w.lastChunkIndex >= 1
                   THEN processLiveDownload(c1, meta)
                   ELSE c1
         IN IF c2.awaiting = "none" THEN checkDynamicPlaylistWithTimer(c2) ELSE c2

\* (mutant) every failed request is handled as a 404
checkDynamicPlaylist_AnyErrorHandsOff(c, dyn, meta) ==
    IF dyn.status = "404"
    THEN Invoke([c EXCEPT !.fx.fetch = "404"], "checkMasterPlaylist")
    ELSE IF dyn.status = "error"
    THEN Invoke(Failed([c EXCEPT !.fx.fetch = "error"], "dynamic"), "checkMasterPlaylist")
    ELSE LET chunkIndexes == getChunks(dyn.data)
             c0 == [c EXCEPT !.fx.fetch = "ok"]
             c1 == IF Len(chunkIndexes) > 0
                   THEN [c0 EXCEPT !.w.lastChunkIndex =
                                      newLastChunkIndex(@, chunkIndexes),
                                   !.hist.lastFound = MathMax(chunkIndexes)]
                   ELSE c0
             c2 == IF Len(chunkIndexes) > 0 /\ c1.w.lastChunkIndex >= 1
                   THEN processLiveDownload(c1, meta)
                   ELSE c1
         IN IF c2.awaiting = "none" THEN checkDynamicPlaylistWithTimer(c2) ELSE c2

\* (mutant) processLiveDownload is not awaited: the next poll is scheduled
\* while the preview it started is running
checkDynamicPlaylist_NotAwaiting(c, dyn, meta) ==
    IF dyn.status = "404"
    THEN Invoke([c EXCEPT !.fx.fetch = "404"], "checkMasterPlaylist")
    ELSE IF dyn.status = "error"
    THEN checkDynamicPlaylistWithTimer(Failed([c EXCEPT !.fx.fetch = "error"], "dynamic"))
    ELSE LET chunkIndexes == getChunks(dyn.data)
             c0 == [c EXCEPT !.fx.fetch = "ok"]
             c1 == IF Len(chunkIndexes) > 0
                   THEN [c0 EXCEPT !.w.lastChunkIndex =
                                      newLastChunkIndex(@, chunkIndexes),
                                   !.hist.lastFound = MathMax(chunkIndexes)]
                   ELSE c0
             c2 == IF Len(chunkIndexes) > 0 /\ c1.w.lastChunkIndex >= 1
                   THEN processLiveDownload(c1, meta)
                   ELSE c1
         IN checkDynamicPlaylistWithTimer(c2)

\* (mutant) a playlist text without chunks is raised as an error
checkDynamicPlaylist_EmptyThrows(c, dyn, meta) ==
    IF dyn.status = "404"
    THEN Invoke([c EXCEPT !.fx.fetch = "404"], "checkMasterPlaylist")
    ELSE IF dyn.status = "error"
    THEN checkDynamicPlaylistWithTimer(Failed([c EXCEPT !.fx.fetch = "error"], "dynamic"))
    ELSE LET chunkIndexes == getChunks(dyn.data)
             c0 == [c EXCEPT !.fx.fetch = "ok",
                             !.fx.noChunks = Len(chunkIndexes) = 0]
             c1 == IF Len(chunkIndexes) > 0
                   THEN [c0 EXCEPT !.w.lastChunkIndex =
                                      newLastChunkIndex(@, chunkIndexes),
                                   !.hist.lastFound = MathMax(chunkIndexes)]
                   ELSE Failed(c0, "dynamic")
             c2 == IF Len(chunkIndexes) > 0 /\ c1.w.lastChunkIndex >= 1
                   THEN processLiveDownload(c1, meta)
                   ELSE c1
         IN IF c2.awaiting = "none" THEN checkDynamicPlaylistWithTimer(c2) ELSE c2

\* checkDynamicPlaylist with the response dyn of axios.get(dynamicPlaylistUrl)
checkDynamicPlaylist(c, dyn, meta) ==
    IF dyn.status = "404"
    THEN Invoke([c EXCEPT !.fx.fetch = "404"], "checkMasterPlaylist")
    ELSE IF dyn.status = "error"
    THEN checkDynamicPlaylistWithTimer(Failed([c EXCEPT !.fx.fetch = "error"], "dynamic"))
    ELSE LET chunkIndexes == getChunks(dyn.data)
             c0 == [c EXCEPT !.fx.fetch = "ok",
                             !.fx.noChunks = Len(chunkIndexes) = 0]
             c1 == IF Len(chunkIndexes) > 0
                   THEN [c0 EXCEPT !.w.lastChunkIndex =
                                      newLastChunkIndex(@, chunkIndexes),
                                   !.hist.lastFound = MathMax(chunkIndexes)]
                   ELSE c0
             c2 == IF Len(chunkIndexes) > 0 /\ c1.w.lastChunkIndex >= 1
                   THEN processLiveDownload(c1, meta)
                   ELSE c1
         IN IF c2.awaiting = "none" THEN checkDynamicPlaylistWithTimer(c2) ELSE c2

\* (mutant) the master playlist is accepted as soon as it holds a chunk
canDownload_AnyChunk(lastChunk, chunkVerifyCount, masterChunkSize) ==
    \/ lastChunk = Unset
    \/ lastChunk = 0
    \/ chunkVerifyCount > APP_PLAYLIST_CHUNK_VERIFY_MAX_RETRY
    \/ masterChunkSize >= 1

\* (mutant) the retry budget is compared with >= instead of >
canDownload_OffByOne(lastChunk, chunkVerifyCount, masterChunkSize) ==
    \/ lastChunk = Unset
    \/ lastChunk = 0
    \/ chunkVerifyCount >= APP_PLAYLIST_CHUNK_VERIFY_MAX_RETRY
    \/ masterChunkSize >= lastChunk

\* !this.lastChunkIndex || chunkVerifyCount > MAX_RETRY || masterChunkSize >= lastChunkIndex
canDownload(lastChunk, chunkVerifyCount, masterChunkSize) ==
    \/ lastChunk = Unset
    \/ lastChunk = 0
    \/ chunkVerifyCount > APP_PLAYLIST_CHUNK_VERIFY_MAX_RETRY
    \/ masterChunkSize >= lastChunk

\* (mutant) a failed request counts as a check that fell short
checkMasterPlaylist_FailureCounts(c, master, meta) ==
    IF master.status = "error"
    THEN checkMasterPlaylistWithTimer(
           Failed([c EXCEPT !.fx.fetch = "error", !.w.chunkVerifyCount = @ + 1], "master"))
    ELSE LET masterChunkSize == Len(getChunks(master.data))
             c1 == [c EXCEPT !.fx.fetch = "ok", !.fx.masterChunkSize = masterChunkSize]
         IN IF canDownload(c.w.lastChunkIndex, c.w.chunkVerifyCount, masterChunkSize)
            THEN processDownload(c1, meta)
            ELSE checkMasterPlaylistWithTimer(
                   [c1 EXCEPT !.w.chunkVerifyCount = @ + 1])

\* (mutant) no return after processDownload: when processDownload comes back
\* without a job the re-check timer is set as well
checkMasterPlaylist_NoReturnAfterDownload(c, master, meta) ==
    IF master.status = "error"
    THEN checkMasterPlaylistWithTimer(Failed([c EXCEPT !.fx.fetch = "error"], "master"))
    ELSE LET masterChunkSize == Len(getChunks(master.data))
             c1 == [c EXCEPT !.fx.fetch = "ok", !.fx.masterChunkSize = masterChunkSize]
         IN IF canDownload(c.w.lastChunkIndex, c.w.chunkVerifyCount, masterChunkSize)
            THEN LET c2 == processDownload(c1, meta)
                 IN IF c2.awaiting = "none" THEN checkMasterPlaylistWithTimer(c2) ELSE c2
            ELSE checkMasterPlaylistWithTimer(
                   [c1 EXCEPT !.w.chunkVerifyCount = @ + 1])

\* checkMasterPlaylist with the outcome master of PeriscopeApi.getFinalPlaylist
checkMasterPlaylist(c, master, meta) ==
    IF master.status = "error"
    THEN checkMasterPlaylistWithTimer(Failed([c EXCEPT !.fx.fetch = "error"], "master"))
    ELSE LET masterChunkSize == Len(getChunks(master.data))
             c1 == [c EXCEPT !.fx.fetch = "ok", !.fx.masterChunkSize = masterChunkSize]
         IN IF canDownload(c.w.lastChunkIndex, c.w.chunkVerifyCount, masterChunkSize)
            THEN processDownload(c1, meta)
            ELSE checkMasterPlaylistWithTimer(
                   [c1 EXCEPT !.w.chunkVerifyCount = @ + 1])

\* (mutant) the url option is looked at after the live stream source is fetched
initData_UrlCheckedLate(c, meta, live, chat, meta2) ==
    LET c1 == IF c.w.metadata = Undefined
              THEN LET m == getSpaceMetadata(c, meta)
                   IN IF ~m.err /\ m.w.metadata = "Running"
                      THEN showNotification(m) ELSE m
              ELSE c
        c2 == [c1 EXCEPT !.w.dynamicPlaylistUrl =
                            IF opts.url THEN "url" ELSE Undefined]
        c3 == IF c2.w.liveStreamStatus THEN c2
              ELSE IF live = "ok"
              THEN [Call(c2, "getLiveVideoStreamStatus") EXCEPT
                       !.w.liveStreamStatus = TRUE,
                       !.hist.liveStreamFetched = Sat(@)]
              ELSE [Failed(Call(c2, "getLiveVideoStreamStatus"), "liveStreamStatus")
                       EXCEPT !.err = TRUE]
        c4 == sendWebhooks([c3 EXCEPT !.w.dynamicPlaylistUrl = "location"], FALSE)
        c5 == IF c4.w.accessChatData THEN c4
              ELSE IF chat = "ok"
              THEN [Call(c4, "getAccessChat") EXCEPT !.w.accessChatData = TRUE]
              ELSE [Failed(Call(c4, "getAccessChat"), "accessChat") EXCEPT !.err = TRUE]
    IN IF c1.err THEN c1
       ELSE IF c3.err THEN c3
       ELSE IF opts.url THEN downloadAudio(c3, FALSE, "initData")
       ELSE IF c5.err THEN c5
       ELSE IF c5.w.metadata = "Ended" THEN processDownload(c5, meta2)
       ELSE IF opts.force THEN downloadAudio(c5, FALSE, "initData")
       ELSE Invoke(c5, "checkDynamicPlaylist")

\* (mutant) the live stream source is requested on every pass
initData_RefetchesLiveStream(c, meta, live, chat, meta2) ==
    LET c1 == IF c.w.metadata = Undefined
              THEN LET m == getSpaceMetadata(c, meta)
                   IN IF ~m.err /\ m.w.metadata = "Running"
                      THEN showNotification(m) ELSE m
              ELSE c
        c2 == [c1 EXCEPT !.w.dynamicPlaylistUrl =
                            IF opts.url THEN "url" ELSE Undefined]
        c3 == IF live = "ok"
              THEN [Call(c2, "getLiveVideoStreamStatus") EXCEPT
                       !.w.liveStreamStatus = TRUE,
                       !.hist.liveStreamFetched = Sat(@)]
              ELSE [Failed(Call(c2, "getLiveVideoStreamStatus"), "liveStreamStatus")
                       EXCEPT !.err = TRUE]
        c4 == sendWebhooks([c3 EXCEPT !.w.dynamicPlaylistUrl = "location"], FALSE)
        c5 == IF c4.w.accessChatData THEN c4
              ELSE IF chat = "ok"
              THEN [Call(c4, "getAccessChat") EXCEPT !.w.accessChatData = TRUE]
              ELSE [Failed(Call(c4, "getAccessChat"), "accessChat") EXCEPT !.err = TRUE]
    IN IF c1.err THEN c1
       ELSE IF opts.url THEN downloadAudio(c2, FALSE, "initData")
       ELSE IF c3.err THEN c3
       ELSE IF c5.err THEN c5
       ELSE IF c5.w.metadata = "Ended" THEN processDownload(c5, meta2)
       ELSE IF opts.force THEN downloadAudio(c5, FALSE, "initData")
       ELSE Invoke(c5, "checkDynamicPlaylist")

\* initData with the outcomes of its requests: meta (metadata), live
\* (getLiveVideoStreamStatus), chat (getAccessChat), meta2 (processDownload)
initData(c, meta, live, chat, meta2) ==
    LET c1 == IF c.w.metadata = Undefined
              THEN LET m == getSpaceMetadata(c, meta)
                   IN IF ~m.err /\ m.w.metadata = "Running"
                      THEN showNotification(m) ELSE m
              ELSE c
        c2 == [c1 EXCEPT !.w.dynamicPlaylistUrl =
                            IF opts.url THEN "url" ELSE Undefined]
        c3 == IF c2.w.liveStreamStatus THEN c2
              ELSE IF live = "ok"
              THEN [Call(c2, "getLiveVideoStreamStatus") EXCEPT
                       !.w.liveStreamStatus = TRUE,
                       !.hist.liveStreamFetched = Sat(@)]
              ELSE [Failed(Call(c2, "getLiveVideoStreamStatus"), "liveStreamStatus")
                       EXCEPT !.err = TRUE]
        c4 == sendWebhooks([c3 EXCEPT !.w.dynamicPlaylistUrl = "location"], FALSE)
        c5 == IF c4.w.accessChatData THEN c4
              ELSE IF chat = "ok"
              THEN [Call(c4, "getAccessChat") EXCEPT !.w.accessChatData = TRUE]
              ELSE [Failed(Call(c4, "getAccessChat"), "accessChat") EXCEPT !.err = TRUE]
    IN IF c1.err THEN c1
       ELSE IF opts.url THEN downloadAudio(c2, FALSE, "initData")
       ELSE IF c3.err THEN c3
       ELSE IF c5.err THEN c5
       ELSE IF c5.w.metadata = "Ended" THEN processDownload(c5, meta2)
       ELSE IF opts.force THEN downloadAudio(c5, FALSE, "initData")
       ELSE Invoke(c5, "checkDynamicPlaylist")

\* (mutant) the retry is scheduled inside "if (this.metadata)"
watch_RetriesOnlyWithMetadata(c, meta, live, chat, meta2) ==
    LET c1 == initData(c, meta, live, chat, meta2)
    IN IF c1.err
       THEN IF c1.w.metadata # Undefined THEN watchRetry(c1) ELSE [c1 EXCEPT !.err = FALSE]
       ELSE c1

\* watch(): initData, and on any error a retry after a fixed delay
watch(c, meta, live, chat, meta2) ==
    LET c1 == initData(c, meta, live, chat, meta2)
    IN IF c1.err THEN watchRetry(c1) ELSE c1

(* -------------------------------- actions ------------------------------ *)
Init ==
    /\ opts \in [url : BOOLEAN, force : BOOLEAN, notification : BOOLEAN,
                 started_at : StartedAt]
    /\ watcher = [metadata |-> Undefined, liveStreamStatus |-> FALSE,
                  accessChatData |-> FALSE, dynamicPlaylistUrl |-> Undefined,
                  lastChunkIndex |-> Unset, chunkVerifyCount |-> 0,
                  isNotificationNotified |-> FALSE, downloader |-> FALSE,
                  detected_phrases |-> <<>>]
    /\ job = NoJob
    /\ awaiting = "none"
    /\ pending = SetToBag({Cont("watch", "call")})
    /\ peer = NoJob
    /\ userList = NoUserList
    /\ lastIndex = [k \in 1..Len(keywords) |-> 0]
    /\ hist = [liveStarted |-> FALSE, notifications |-> 0, liveStreamFetched |-> 0,
               finalDone |-> FALSE, lastFound |-> Unset, webhookSent |-> FALSE,
               liveKept |-> FALSE]
    /\ lastOp = Fx0("init")

\* the context of the handler op that continuation t starts
Resume(op, t) == [Ctx(op) EXCEPT !.pending = @ (-) SetToBag({t})]

\* watch(): the first call, or the retry timer firing
Watch ==
    \E t \in BagToSet(pending), meta, meta2 \in MetadataOutcome,
       live, chat \in {"ok", "error"} :
        /\ t.fn = "watch"
        /\ MetadataFollows(watcher.metadata, meta)
        /\ MetadataFollows(IF meta \in MetadataState THEN meta ELSE watcher.metadata,
                           meta2)
        /\ \E now \in CaptureClock :
             Commit(watch([Resume("watch", t) EXCEPT !.now = now],
                          meta, live, chat, meta2))

\* checkDynamicPlaylist(): its request for the dynamic playlist completes
CheckDynamicPlaylist ==
    \E t \in BagToSet(pending), dyn \in Responses({"404", "error"}),
       meta \in MetadataOutcome :
        /\ t.fn = "checkDynamicPlaylist"
        /\ MetadataFollows(watcher.metadata, meta)
        /\ getChunks(dyn.data) = <<>> => meta = "error"   \* no metadata request
        /\ \E now \in CaptureClock :
             Commit(checkDynamicPlaylist(
                      [Resume("checkDynamicPlaylist", t) EXCEPT !.now = now], dyn, meta))

\* checkMasterPlaylist(): its request for the master playlist completes
CheckMasterPlaylist ==
    \E t \in BagToSet(pending), master \in Responses({"error"}),
       meta \in MetadataOutcome :
        /\ t.fn = "checkMasterPlaylist"
        /\ MetadataFollows(watcher.metadata, meta)
        /\ master.status = "error" => meta = "error"      \* no metadata request
        /\ \E now \in CaptureClock :
             Commit(checkMasterPlaylist(
                      [Resume("checkMasterPlaylist", t) EXCEPT !.now = now], master, meta))

\* PeriscopeApi.getFinalPlaylistUrl of a final job completes
GetFinalPlaylistUrl ==
    /\ job.pc = "getFinalPlaylistUrl"
    /\ \E ok \in BOOLEAN, now \in CaptureClock :
        Commit(IF ok
               THEN download_extract([Ctx("getFinalPlaylistUrl") EXCEPT
                                         !.job.playlistUrl = "masterUrl", !.now = now])
               ELSE downloadSettled(Ctx("getFinalPlaylistUrl"), "threw"))

\* ffmpeg 'close': the process ended with exit code
FfmpegClose ==
    /\ job.pc = "ffmpeg"
    /\ \E code \in {"0", "1"} :
        Commit(download_transcribe(
                 [Ctx("ffmpeg.close") EXCEPT !.job.ffmpeg = "complete",
                                             !.job.ffmpegExit = code]))

\* ffmpeg 'error': the process could not be spawned; 'close' follows
FfmpegError ==
    /\ job.pc = "ffmpeg"
    /\ Commit(downloadSettled(
                [Ctx("ffmpeg.error") EXCEPT !.job.ffmpeg = "error",
                                            !.job.ffmpegExit = "error",
                                            !.job.closeDue = "ffmpeg"], "threw"))

\* (mutant) a missing audio file is raised as an error of the stage
WhisperStat_MissingRejects ==
    /\ job.pc = "whisper.stat"
    /\ \E exists \in BOOLEAN :
        Commit(IF exists
               THEN spawn_whisper(Ctx("whisper.stat"))
               ELSE downloadSettled(
                      [Ctx("whisper.stat") EXCEPT !.job.whisper = "error"], "threw"))

\* stat() of the audio file settles
WhisperStat ==
    /\ job.pc = "whisper.stat"
    /\ \E exists \in BOOLEAN :
        Commit(IF exists
               THEN spawn_whisper(Ctx("whisper.stat"))
               ELSE download_captions(
                      [Ctx("whisper.stat") EXCEPT !.job.whisper = "pending",
                                                  !.job.pc = "resolved"]))

\* whisper 'close'
WhisperClose ==
    /\ job.pc = "whisper"
    /\ \E code \in {"0", "1"}, now \in Clock :
        Commit(download_captions(
                 [Ctx("whisper.close") EXCEPT !.job.whisper = "complete",
                                              !.job.whisperExit = code,
                                              !.now = now]))

\* whisper 'error'; 'close' follows
WhisperError ==
    /\ job.pc = "whisper"
    /\ Commit(downloadSettled(
                [Ctx("whisper.error") EXCEPT !.job.whisper = "error",
                                             !.job.whisperExit = "error",
                                             !.job.closeDue = "whisper"], "threw"))

\* the 'close' event that follows an 'error' event of a child process
LateClose ==
    /\ job.closeDue # "none"
    /\ Commit(IF job.closeDue = "ffmpeg"
              THEN [Ctx("ffmpeg.close") EXCEPT !.job.ffmpeg = "complete",
                                               !.job.closeDue = "none"]
              ELSE [Ctx("whisper.close") EXCEPT !.job.whisper = "complete",
                                                !.job.closeDue = "none"])

\* stat() of the caption file settles
CaptionsStat ==
    /\ job.pc = "captions.stat"
    /\ \E exists \in BOOLEAN, file \in CaptionFiles :
        Commit(IF exists
               THEN [Ctx("captions.stat") EXCEPT !.job.stream = file,
                                                 !.job.file = file,
                                                 !.job.pc = "captions.stream"]
               ELSE download_return(
                      [Ctx("captions.stat") EXCEPT !.job.captions = "pending",
                                                   !.job.pc = "resolved"]))

\* 'data' of the caption stream
CaptionsData ==
    /\ job.pc = "captions.stream"
    /\ job.stream # <<>>
    /\ Commit(captions_data(Ctx("captions.data"), Head(job.stream)))

\* 'finish' of the caption stream
CaptionsFinish ==
    /\ job.pc = "captions.stream"
    /\ job.stream = <<>>
    /\ Commit(captions_finish(Ctx("captions.finish")))

\* 'error' of the caption stream
CaptionsError ==
    /\ job.pc = "captions.stream"
    /\ Commit(downloadSettled(
                [Ctx("captions.error") EXCEPT !.job.captions = "error"], "threw"))

Next ==
    \/ Watch
    \/ CheckDynamicPlaylist
    \/ CheckMasterPlaylist
    \/ GetFinalPlaylistUrl
    \/ FfmpegClose
    \/ FfmpegError
    \/ WhisperStat
    \/ WhisperClose
    \/ WhisperError
    \/ LateClose
    \/ CaptionsStat
    \/ CaptionsData
    \/ CaptionsFinish
    \/ CaptionsError

Spec == Init /\ [][Next]_vars

(* ------------------------ the caption scan alone ----------------------- *)
\* The scan of a caption file by process_captions, started in the state a
\* watch is in when stat() of the caption file has succeeded, on caption
\* files that cover every alias of the keyword table.
MaxScanCues == 2    \* the caption files of several cues hold at most this many

Upper(ch) ==
    IF \E i \in 1..Len(LowerCase) : LowerCase[i] = ch
    THEN UpperCase[CHOOSE i \in 1..Len(LowerCase) : LowerCase[i] = ch]
    ELSE ch

\* an alias as the table spells it, in lower case and in upper case
AnyCase(alias) ==
    {alias, [i \in 1..Len(alias) |-> Lower(alias[i])],
            [i \in 1..Len(alias) |-> Upper(alias[i])]}

\* what precedes and follows an alias in a cue
Before == {<<>>, <<"s","a","i","d"," ">>, <<"N"," ","J"," ">>}
After == {<<>>, <<" ","t","o","d","a","y",".">>}

AliasCueText(pre, v, post) == pre \o v \o post

\* every alias of every rule, in the three letter cases
AliasVariants ==
    UNION {UNION {AnyCase(keywords[k].raw[a]) : a \in 1..Len(keywords[k].raw)} :
           k \in 1..Len(keywords)}

AliasCueTexts ==
    {AliasCueText(pre, v, post) : pre \in Before, post \in After, v \in AliasVariants}

ScanFiles ==
    {<<Cue(1, t)>> : t \in AliasCueTexts} \cup
    UNION { { [i \in 1..n |-> Cue(i, f[i])] : f \in [1..n -> CueTexts] } :
            n \in 0..MaxScanCues }

\* Date.now() when the scan starts
ScanClock == {5000, 6000}

ScanInit ==
    \E live \in BOOLEAN, file \in ScanFiles, now \in ScanClock, cap \in CaptureClock :
        /\ opts \in [url : {FALSE}, force : {FALSE}, notification : {FALSE},
                     started_at : StartedAt]
        /\ watcher = [metadata |-> IF live THEN "Running" ELSE "Ended",
                      liveStreamStatus |-> TRUE, accessChatData |-> TRUE,
                      dynamicPlaylistUrl |-> "location",
                      lastChunkIndex |-> 1, chunkVerifyCount |-> 0,
                      isNotificationNotified |-> FALSE, downloader |-> TRUE,
                      detected_phrases |-> <<>>]
        /\ job = [process_captions(
                     [job |-> [SpaceDownloader(live, opts.started_at) EXCEPT
                                  !.ffmpeg = "complete", !.ffmpegExit = "0",
                                  !.whisper = "complete", !.whisperExit = "0",
                                  !.whisperSpawned = TRUE, !.capturedAt = cap],
                      now |-> now]).job
                    EXCEPT !.stream = file, !.file = file, !.pc = "captions.stream"]
        /\ awaiting = IF live THEN "processLiveDownload" ELSE "processDownload"
        /\ pending = EmptyBag
        /\ peer = NoJob
        /\ userList = NoUserList
        /\ lastIndex = [k \in 1..Len(keywords) |-> 0]
        /\ hist = [liveStarted |-> live, notifications |-> 0, liveStreamFetched |-> 1,
                   finalDone |-> FALSE, lastFound |-> 1, webhookSent |-> TRUE,
                   liveKept |-> FALSE]
        /\ lastOp = Fx0("captions.stat")

\* the 'data' handler applied to every cue left in the stream
RECURSIVE ScanAll(_)
ScanAll(c) ==
    IF c.job.stream = <<>> THEN c
    ELSE ScanAll(captions_data(c, Head(c.job.stream)))

\* process_captions as a function: the phrase list that the scan of file,
\* started at now in a job constructed with (live, started_at), leaves in
\* the job, the patterns having lastIndex li when it starts
ScanAgain(file, live, started_at, now, li) ==
    LET c0 == process_captions(
                [Ctx("process_captions") EXCEPT
                    !.job = [SpaceDownloader(live, started_at) EXCEPT
                                !.ffmpeg = "complete", !.whisper = "complete"],
                    !.lastIndex = li, !.now = now, !.awaiting = "processDownload"])
        c1 == ScanAll([c0 EXCEPT !.job.stream = file, !.job.file = file,
                                 !.job.pc = "captions.stream"])
    IN captions_finish(c1).fx.returned.phrases

ScanNext ==
    \/ CaptionsData
    \/ CaptionsFinish
    \/ CaptionsError

ScanSpec == ScanInit /\ [][ScanNext]_vars

(* ------------------- the caption scans of two broadcasts --------------- *)
\* Two watchers of one process, each with a capture job whose caption stream
\* is open, one job a live preview and the other a final capture.  The keyword table is a constant of the module SpaceDownloader:
\* both jobs use the same patterns, and the 'data' and 'finish' callbacks of
\* their streams run in any order.
\* cue texts: one rule matching at the start, two rules matching further on,
\* no rule matching
IsolationCueTexts ==
    { <<"A","F","P","A","C">>,
      <<"o","k"," ","n","j","f"," ","a","f","p","a","c">>,
      <<"h","i",".">> }

FilesOf(n) == { [i \in 1..n |-> Cue(i, f[i])] : f \in [1..n -> IsolationCueTexts] }

\* the caption files of this watcher's job, and those of the other job (no
\* cue, one cue, two cues)
IsolationFiles == UNION { FilesOf(n) : n \in 0..MaxScanCues }
PeerFiles == FilesOf(0) \cup FilesOf(1) \cup FilesOf(2)

\* a job as process_captions leaves it when the stream of file is opened
Scanning(live, started_at, now, file) ==
    [process_captions(
        [job |-> [SpaceDownloader(live, started_at) EXCEPT
                     !.ffmpeg = "complete", !.ffmpegExit = "0",
                     !.whisper = "complete", !.whisperExit = "0",
                     !.whisperSpawned = TRUE],
         now |-> now]).job
     EXCEPT !.stream = file, !.file = file, !.pc = "captions.stream"]

IsolationInit ==
    \E live \in BOOLEAN, file \in IsolationFiles, peerFile \in PeerFiles :
        /\ opts \in [url : {FALSE}, force : {FALSE}, notification : {FALSE},
                     started_at : StartedAt]
        /\ watcher = [metadata |-> IF live THEN "Running" ELSE "Ended",
                      liveStreamStatus |-> TRUE, accessChatData |-> TRUE,
                      dynamicPlaylistUrl |-> "location",
                      lastChunkIndex |-> 1, chunkVerifyCount |-> 0,
                      isNotificationNotified |-> FALSE, downloader |-> TRUE,
                      detected_phrases |-> <<>>]
        /\ job = Scanning(live, opts.started_at, 5000, file)
        /\ peer = Scanning(~live, 1000, 6000, peerFile)
        /\ userList = NoUserList
        /\ awaiting = IF live THEN "processLiveDownload" ELSE "processDownload"
        /\ pending = EmptyBag
        /\ lastIndex = [k \in 1..Len(keywords) |-> 0]
        /\ hist = [liveStarted |-> live, notifications |-> 0, liveStreamFetched |-> 1,
                   finalDone |-> FALSE, lastFound |-> 1, webhookSent |-> TRUE,
                   liveKept |-> FALSE]
        /\ lastOp = Fx0("captions.stat")

\* the context of a callback of the other job: its own job and watcher, the
\* patterns of the process
PeerCtx(op) ==
    [Ctx(op) EXCEPT !.job = peer,
                    !.w.downloader = TRUE, !.w.detected_phrases = <<>>,
                    !.awaiting = IF peer.live THEN "processLiveDownload"
                                 ELSE "processDownload"]

PeerCommit(c) ==
    /\ peer' = c.job
    /\ lastIndex' = c.lastIndex
    /\ lastOp' = c.fx
    /\ UNCHANGED <<opts, watcher, job, awaiting, pending, hist, userList>>

\* 'data' of the caption stream of the other job
PeerCaptionsData ==
    /\ peer.pc = "captions.stream"
    /\ peer.stream # <<>>
    /\ PeerCommit(captions_data(PeerCtx("peer.captions.data"), Head(peer.stream)))

\* 'finish' of the caption stream of the other job
PeerCaptionsFinish ==
    /\ peer.pc = "captions.stream"
    /\ peer.stream = <<>>
    /\ PeerCommit(captions_finish(PeerCtx("peer.captions.finish")))

IsolationNext ==
    \/ CaptionsData
    \/ CaptionsFinish
    \/ PeerCaptionsData
    \/ PeerCaptionsFinish

IsolationSpec == IsolationInit /\ [][IsolationNext]_vars

(* ------------------------- the user list watcher ----------------------- *)
\* A process that watches a list of users: the UserListWatcher has been
\* constructed and watch() has been called; no SpaceWatcher exists yet.
UserListInit ==
    /\ opts = [url |-> FALSE, force |-> FALSE, notification |-> FALSE,
               started_at |-> 0]
    /\ watcher = [metadata |-> Undefined, liveStreamStatus |-> FALSE,
                  accessChatData |-> FALSE, dynamicPlaylistUrl |-> Undefined,
                  lastChunkIndex |-> Unset, chunkVerifyCount |-> 0,
                  isNotificationNotified |-> FALSE, downloader |-> FALSE,
                  detected_phrases |-> <<>>]
    /\ job = NoJob
    /\ awaiting = "none"
    /\ pending = EmptyBag
    /\ peer = NoJob
    /\ lastIndex = [k \in 1..Len(keywords) |-> 0]
    /\ hist = [liveStarted |-> FALSE, notifications |-> 0, liveStreamFetched |-> 0,
               finalDone |-> FALSE, lastFound |-> Unset, webhookSent |-> FALSE,
               liveKept |-> FALSE]
    /\ lastOp = Fx0("init")
    /\ \E n \in 0..MaxUsernames : \E usernames \in [1..n -> Usernames] :
         userList = [UserListWatcher(usernames) EXCEPT
                        !.pending = SetToBag({UserListCont("watch", 0, <<>>, "call")})]

\* the list watcher when continuation t starts the handler op
UserListResume(op, t) ==
    [userList EXCEPT !.pending = @ (-) SetToBag({t}), !.fx = UserListFx0(op)]

\* watch(): the first call or a retry; its lookups settle
UserListWatch ==
    \E t \in BagToSet(userList.pending), error \in {NoError} \cup LookupErrors,
       responses \in [1..Len(userList.usernameChunks) -> LookupResponses],
       now \in UserListClock :
        /\ t.fn = "watch"
        /\ error.status # "ok" => userList.failures < MaxWatchFailures
        /\ userList' = UserListWatcher_watch(UserListResume("watch", t),
                                             error, responses, now)
        /\ UNCHANGED <<opts, watcher, job, awaiting, pending, peer, lastIndex,
                       hist, lastOp>>

\* getSpaces(ids): a direct call or a timer; its request settles
UserListGetSpaces ==
    \E t \in BagToSet(userList.pending), resp \in SpacesResponses,
       throws \in BOOLEAN :
        /\ t.fn = "getSpaces"
        /\ userList' = UserListWatcher_getSpaces(UserListResume("getSpaces", t),
                                                 t, resp, throws)
        /\ UNCHANGED <<opts, watcher, job, awaiting, pending, peer, lastIndex,
                       hist, lastOp>>

UserListNext ==
    \/ UserListWatch
    \/ UserListGetSpaces

UserListSpec == UserListInit /\ [][UserListNext]_vars

(* -------------------------------- claims ------------------------------- *)
\* a capture job is running: download() has not settled
JobRunning == job.pc \notin {"none", "settled"}

\* the functions with a pending continuation
PendingFns == {t.fn : t \in BagToSet(pending)}

\* checkMasterPlaylist ran last, its request succeeded, and it did / did not
\* enter processDownload
MasterChecked == lastOp.op = "checkMasterPlaylist" /\ lastOp.fetch = "ok"
MasterAuthorized == MasterChecked /\ BagIn("processDownload", lastOp.calls)
MasterRescheduled == MasterChecked /\ ~BagIn("processDownload", lastOp.calls)

MasterTimer == Cont("checkMasterPlaylist", APP_PLAYLIST_REFRESH_INTERVAL)

\* C1: the verifier authorizes finalization no later than its
\* (APP_PLAYLIST_CHUNK_VERIFY_MAX_RETRY + 1)-th check of the master playlist:
\* a check that reschedules is at most the MAX_RETRY-th one, so the retry
\* counter it leaves never exceeds MAX_RETRY.
C1_AuthorizedWithinBudget ==
    MasterRescheduled =>
        watcher.chunkVerifyCount <= APP_PLAYLIST_CHUNK_VERIFY_MAX_RETRY

\* C2: the watermark lastChunkIndex never decreases.
C2_WatermarkNonDecreasing ==
    [][watcher'.lastChunkIndex >= watcher.lastChunkIndex]_vars

\* C3: after a successful master-playlist request processDownload is entered
\* if and only if no watermark is recorded, or chunkVerifyCount exceeds the
\* maximum, or the master chunk count reaches the watermark; otherwise
\* chunkVerifyCount grows by one, exactly one re-check is scheduled after
\* APP_PLAYLIST_REFRESH_INTERVAL and no capture job is started.
C3_Authorize ==
    \/ watcher.lastChunkIndex = Unset
    \/ watcher.chunkVerifyCount > APP_PLAYLIST_CHUNK_VERIFY_MAX_RETRY
    \/ lastOp'.masterChunkSize >= watcher.lastChunkIndex
C3_VerifierDecision ==
    [][(lastOp'.op = "checkMasterPlaylist" /\ lastOp'.fetch = "ok") =>
          /\ BagIn("processDownload", lastOp'.calls) <=> C3_Authorize
          /\ ~C3_Authorize =>
               /\ watcher'.chunkVerifyCount = watcher.chunkVerifyCount + 1
               /\ lastOp'.timers = SetToBag({MasterTimer})
               /\ pending' = SetToBag({MasterTimer})
               /\ lastOp'.jobStarted = "none"
               /\ job' = job /\ awaiting' = "none"
          /\ C3_Authorize =>
               /\ watcher'.chunkVerifyCount = watcher.chunkVerifyCount
               /\ CopiesIn("processDownload", lastOp'.calls) = 1
               /\ "checkMasterPlaylist" \notin PendingFns']_vars
C3_Witness ==
    /\ MasterRescheduled
    /\ watcher.lastChunkIndex = 4 /\ lastOp.masterChunkSize = 3
    /\ pending = SetToBag({MasterTimer})

\* C4: no fetch failure and no capture-job failure ends the watch loop: after
\* a failure, while the final capture has not completed, some continuation
\* of the watcher is pending or a job it awaits is running.
C4_LoopSurvivesFailure ==
    (lastOp.failures # {} /\ ~hist.finalDone) =>
        (pending # EmptyBag \/ awaiting # "none")

\* C5: when ffmpeg ends with a non-zero or error status, the extraction
\* status is ERROR, the transcription process is never invoked and download()
\* does not succeed.
C5_ExtractionFailureAborts ==
    job.ffmpegExit \in {"1", "error"} =>
        /\ job.ffmpeg = "error"
        /\ job.whisper = "pending" /\ ~job.whisperSpawned
        /\ job.result \in {"none", "false"} /\ job.phrases = <<>>

\* C6: transcription is IN_PROGRESS only while extraction is COMPLETE, and
\* the caption scan is IN_PROGRESS only while transcription is COMPLETE.
C6_StageOrder ==
    /\ job.whisper = "in-progress" => job.ffmpeg = "complete"
    /\ job.captions = "in-progress" => job.whisper = "complete"
C6_Witness ==
    /\ job.captions = "in-progress" /\ job.pc = "captions.stream"
    /\ job.whisper = "complete" /\ job.ffmpeg = "complete"

\* C7 (as stated): at most one live-preview job is created over the whole
\* watch: a step starts a live preview only if none was started before.
C7_AtMostOnePreview ==
    [][lastOp'.jobStarted = "live" => ~hist.liveStarted]_vars

\* C7 (amended): a live preview is started only by a dynamic poll that found
\* chunks with a watermark >= 1, after a metadata refresh that reported
\* RUNNING, and only while the job slot is empty; no poll starts a preview
\* while the slot is occupied.
C7_PreviewOnlyIntoEmptySlot ==
    [][lastOp'.jobStarted = "live" =>
          /\ lastOp'.op = "checkDynamicPlaylist" /\ lastOp'.fetch = "ok"
          /\ watcher'.lastChunkIndex >= 1
          /\ watcher'.metadata = "Running"
          /\ ~watcher.downloader /\ ~JobRunning
          /\ watcher'.downloader /\ job'.live /\ job'.pc = "ffmpeg"]_vars
C7_Witness ==
    /\ lastOp.jobStarted = "live" /\ hist.liveStarted
    /\ job.live /\ job.pc = "ffmpeg" /\ watcher.lastChunkIndex >= 1

\* C8: while a live-preview job is running, the next dynamic-playlist poll
\* is scheduled: the preview does not gate the polling loop.
C8_PreviewDoesNotGatePolling ==
    (job.live /\ JobRunning) => "checkDynamicPlaylist" \in PendingFns

\* C9: whenever a stage of a capture job failed, download() completes with
\* the returned value false, not a thrown error, and the phrase list is empty.
C9_FailureReturnsFalse ==
    (lastOp.result # "none" /\ "error" \in {job.ffmpeg, job.whisper, job.captions}) =>
        (lastOp.result = "false" /\ job.phrases = <<>>)

\* C10: a dynamic-playlist request answered 404 schedules no further dynamic
\* poll, invokes checkMasterPlaylist exactly once, and leaves the watermark
\* at the value recorded by the last successful poll that found chunks.
C10_HandOffOn404 ==
    [][(lastOp'.op = "checkDynamicPlaylist" /\ lastOp'.fetch = "404") =>
          /\ lastOp'.timers = EmptyBag
          /\ "checkDynamicPlaylist" \notin PendingFns'
          /\ CopiesIn("checkMasterPlaylist", lastOp'.calls) = 1
          /\ pending' = SetToBag({Cont("checkMasterPlaylist", "call")})
          /\ watcher'.lastChunkIndex = watcher.lastChunkIndex
          /\ watcher'.lastChunkIndex = hist'.lastFound
          /\ watcher'.chunkVerifyCount = watcher.chunkVerifyCount]_vars
C10_Witness ==
    /\ lastOp.op = "checkDynamicPlaylist" /\ lastOp.fetch = "404"
    /\ watcher.lastChunkIndex = 4 /\ hist.lastFound = 4
    /\ pending = SetToBag({Cont("checkMasterPlaylist", "call")})

\* C11: download() returns true if and only if the caption-scan status is
\* COMPLETE when it returns; a scan that completes without a keyword match
\* returns true with an empty phrase list.
C11_SuccessIffScanComplete ==
    lastOp.result \in {"true", "false"} =>
        /\ lastOp.result = "true" <=> lastOp.returned.captions = "complete"
        /\ (lastOp.returned.captions = "complete" /\ lastOp.returned.phrases_matched = 0)
               => (lastOp.result = "true" /\ lastOp.returned.phrases = <<>>)

\* a scan of a file with a cue and no match returned true and no phrase
C11_Witness ==
    /\ lastOp.op = "captions.finish" /\ lastOp.result = "true"
    /\ lastOp.returned.captions = "complete"
    /\ Len(lastOp.returned.file) >= 1 /\ lastOp.returned.phrases_matched = 0
    /\ lastOp.returned.phrases = <<>>

\* C12: a missing audio file (at the start of transcription) or caption file
\* (at the start of the scan) is a soft failure: the handler of the failed
\* stat() makes download() return false, not throw, with an empty phrase
\* list; the stage is left PENDING, whisper is not spawned, no caption stream
\* is opened and no later stage has run.
C12_ArtifactMissingIsSoft ==
    /\ lastOp.op = "whisper.stat" =>
          \/ lastOp.result = "none" /\ job.pc = "whisper" /\ job.whisperSpawned
          \/ /\ lastOp.result = "false"
             /\ ~lastOp.returned.whisperSpawned
             /\ lastOp.returned.whisper = "pending"
             /\ lastOp.returned.captions = "pending"
             /\ lastOp.returned.file = <<>>
             /\ lastOp.returned.phrases = <<>>
    /\ lastOp.op = "captions.stat" =>
          \/ lastOp.result = "none" /\ job.pc = "captions.stream"
          \/ /\ lastOp.result = "false"
             /\ lastOp.returned.captions = "pending"
             /\ lastOp.returned.file = <<>>
             /\ lastOp.returned.scanned = <<>>
             /\ lastOp.returned.phrases = <<>>

\* the audio file was missing: download() returned false without whisper
C12_Witness ==
    /\ lastOp.op = "whisper.stat" /\ lastOp.result = "false"
    /\ lastOp.returned.ffmpeg = "complete" /\ ~lastOp.returned.whisperSpawned
    /\ lastOp.returned.phrases = <<>>

\* the job whose download() returned in the last step, as it was then
Returned == lastOp.returned
ScanFinished == lastOp.op = "captions.finish"

C14_TimestampRelativeToBroadcast ==
    ScanFinished =>
        \A i \in 1..Len(Returned.scanned) :
            Returned.scanned[i].ts =
                Returned.file[i].start +
                (IF Returned.live THEN Returned.capturedAt - Returned.timeStarted ELSE 0)

\* a cue matches a rule of the table: the pattern occurs in its stripped text
RuleMatches(k, text) ==
    \E i \in 1..Len(text) : AltAt(keywords[k].raw, text, i) > 0
CueMatches(text) ==
    \E k \in 1..Len(keywords) : RuleMatches(k, StripNonText(text))

\* C15: the scan result is all or nothing: if a cue of the file matches a
\* rule, the phrase list holds one phrase per cue of the file, in cue order,
\* matched or not; if no cue matches, the list is empty.
C15_AllOrNothing ==
    ScanFinished =>
        IF \E i \in 1..Len(Returned.file) : CueMatches(Returned.file[i].text)
        THEN /\ Len(Returned.phrases) = Len(Returned.file)
             /\ \A i \in 1..Len(Returned.file) :
                   /\ Returned.phrases[i].ts =
                         Returned.file[i].start + Returned.ms_space_elapsed
                   /\ ~CueMatches(Returned.file[i].text) =>
                         Returned.phrases[i].text = StripNonText(Returned.file[i].text)
                   /\ CueMatches(Returned.file[i].text) =>
                         Returned.phrases[i].text # StripNonText(Returned.file[i].text)
        ELSE Returned.phrases = <<>>

\* a file of a matching cue followed by a cue without a match gave two phrases
C15_Witness ==
    /\ ScanFinished /\ Len(Returned.file) = 2
    /\ ~CueMatches(Returned.file[1].text) /\ CueMatches(Returned.file[2].text)
    /\ Len(Returned.phrases) = 2

\* the phrase list left by the scan of the one-cue file of an alias v of rule
\* k between pre and post is one phrase, the tag of rule k in place of v
AliasRendered(k, v, pre, post) ==
    Returned.phrases =
        << CaptionPhrase(Returned.ms_space_elapsed,
                         StripNonText(pre) \o Markup(keywords[k].fmt)
                                           \o StripNonText(post)) >>

PhraseWebhooks ==
    SelectSeq(lastOp.webhooks, LAMBDA w : w.live \/ w.captions # <<>>)
PlainWebhooks == SelectSeq(lastOp.webhooks, LAMBDA w : ~w.live)

\* C17: a phrase-carrying notification is sent exactly once when a capture
\* job completes with success = true and at least one phrase, carrying the
\* job's phrases, and never in any other step: not when a job fails, not
\* when it completes without a phrase.
C17_PhraseNotificationOncePerJob ==
    /\ Len(PhraseWebhooks) =
          IF lastOp.result = "true" /\ Len(Returned.phrases) >= 1 THEN 1 ELSE 0
    /\ \A i \in 1..Len(PhraseWebhooks) :
          PhraseWebhooks[i].live /\ PhraseWebhooks[i].captions = Returned.phrases

\* a live preview returned true with a phrase and its webhook was sent
C17_Witness ==
    /\ lastOp.result = "true" /\ Returned.live /\ Len(Returned.phrases) >= 1
    /\ Len(PhraseWebhooks) = 1 /\ PhraseWebhooks[1].captions = Returned.phrases
    /\ watcher.detected_phrases = Returned.phrases

\* C18: the phrase-less notification of initData is sent at most once per
\* watched broadcast, however often watch() is retried, and carries no phrase.
C18_PlainNotificationAtMostOnce ==
    [][Len(PlainWebhooks') >= 1 =>
          /\ ~hist.webhookSent
          /\ Len(PlainWebhooks') = 1
          /\ PlainWebhooks'[1].captions = <<>>]_vars

\* C19: showNotification emits the "went live" notification exactly once
\* per watched broadcast (the notification option being set): never twice,
\* and once the watcher has seen a metadata refresh report RUNNING it has
\* been emitted.
C19_NotifiedOnceWhenRunning ==
    /\ hist.notifications <= 1
    /\ (opts.notification /\ watcher.metadata = "Running") => hist.notifications = 1

\* C20: a job one of whose stages is in ERROR is discarded: once its
\* download() has settled the watcher does not keep it in its job slot.
C20_FailedJobDiscarded ==
    (job.pc = "settled" /\ "error" \in {job.ffmpeg, job.whisper, job.captions})
        => ~watcher.downloader

\* the retry of watch() and the fetches that initData issues itself
WatchRetryTimer == Cont("watch", APP_SPACE_ERROR_RETRY_INTERVAL)
InitDataFetchFailed ==
    /\ lastOp.op = "watch"
    /\ \/ "liveStreamStatus" \in lastOp.failures
       \/ "accessChat" \in lastOp.failures
       \/ "metadata" \in lastOp.failures /\ ~BagIn("processDownload", lastOp.calls)

\* C21: when a fetch of initData fails (its metadata fetch, its fetch of
\* the live stream source, its chat-access fetch), watch() schedules exactly
\* one call of itself after APP_SPACE_ERROR_RETRY_INTERVAL, whatever failed
\* before, and starts nothing else: no poll, no verifier, no capture job.
C21_InitFailureRetriesOnce ==
    InitDataFetchFailed =>
        /\ lastOp.timers = SetToBag({WatchRetryTimer})
        /\ pending = SetToBag({WatchRetryTimer})
        /\ lastOp.jobStarted = "none"
        /\ ~BagIn("checkDynamicPlaylist", lastOp.calls)
        /\ ~BagIn("downloadAudio", lastOp.calls)

\* the chat-access fetch failed after the live stream source was fetched
C21_Witness ==
    /\ lastOp.op = "watch" /\ lastOp.failures = {"accessChat"}
    /\ watcher.liveStreamStatus /\ ~watcher.accessChatData
    /\ pending = SetToBag({WatchRetryTimer})

\* the answers to the metadata requests of the last step
MetadataAnswers == lastOp.metadata
Rejected239(answers) == \E i \in 1..Len(answers) : answers[i] = "error239"

\* C22: a metadata request rejected with error code 239 triggers exactly one
\* refresh of the guest token (and no other outcome triggers one); the
\* request is not issued again in the same cycle; the cycle fails (the
\* handler starts no capture job and reports the failure); the stored
\* metadata and phrases are what they were before the rejected request.
C22_CredentialRejected ==
    [][LET answers == lastOp'.metadata
           n == Len(answers)
       IN /\ CopiesIn("getGuestToken(true)", lastOp'.calls) =
                 IF Rejected239(answers) THEN 1 ELSE 0
          /\ Rejected239(answers) =>
                /\ answers[n] = "error239"
                /\ \A i \in 1..(n - 1) : answers[i] \in MetadataState
                /\ CopiesIn("getSpaceMetadata", lastOp'.calls) = n
                /\ "metadata" \in lastOp'.failures
                /\ lastOp'.jobStarted = "none"
                /\ ~BagIn("downloadAudio", lastOp'.calls)
                /\ watcher'.metadata =
                      IF n = 1 THEN watcher.metadata ELSE answers[n - 1]
                /\ n = 1 => watcher'.detected_phrases = watcher.detected_phrases]_vars

\* the refresh of processLiveDownload was rejected: the state is still
\* RUNNING and one refresh of the guest token was triggered
C22_Witness ==
    /\ lastOp.op = "checkDynamicPlaylist" /\ MetadataAnswers = <<"error239">>
    /\ CopiesIn("getGuestToken(true)", lastOp.calls) = 1
    /\ watcher.metadata = "Running" /\ lastOp.jobStarted = "none"

DynamicTimer == Cont("checkDynamicPlaylist", APP_PLAYLIST_REFRESH_INTERVAL)

\* C23: a dynamic-playlist request that fails otherwise than with 404 leaves
\* the watermark, the verify retry counter and the job slot unchanged, issues
\* no metadata request, starts no capture job and no check of the master
\* playlist, and sets exactly one timer: the next dynamic poll after
\* APP_PLAYLIST_REFRESH_INTERVAL.
C23_PollFailureChangesNothing ==
    [][(lastOp'.op = "checkDynamicPlaylist" /\ lastOp'.fetch = "error") =>
          /\ watcher' = watcher
          /\ job' = job /\ awaiting' = awaiting
          /\ lastOp'.jobStarted = "none"
          /\ lastOp'.calls = EmptyBag
          /\ lastOp'.timers = SetToBag({DynamicTimer})
          /\ CopiesIn(DynamicTimer, pending') = 1
          /\ "checkMasterPlaylist" \notin PendingFns']_vars

\* a poll failed after a watermark of 4 had been recorded
C23_Witness ==
    /\ lastOp.op = "checkDynamicPlaylist" /\ lastOp.fetch = "error"
    /\ watcher.lastChunkIndex = 4 /\ hist.lastFound = 4
    /\ lastOp.timers = SetToBag({DynamicTimer})

\* C24: with the url option the watcher never requests the live stream
\* source, never polls the dynamic playlist and never checks the master
\* playlist; a watch() whose metadata is available starts a final capture
\* job at once, and nothing but a retry of watch() is ever pending.
C24_UrlOverrideSkipsMonitoring ==
    opts.url =>
        /\ ~watcher.liveStreamStatus /\ hist.liveStreamFetched = 0
        /\ ~watcher.accessChatData
        /\ ~BagIn("getLiveVideoStreamStatus", lastOp.calls)
        /\ ~BagIn("checkDynamicPlaylist", lastOp.calls)
        /\ ~BagIn("checkMasterPlaylist", lastOp.calls)
        /\ ~BagIn("processDownload", lastOp.calls)
        /\ lastOp.op \notin {"checkDynamicPlaylist", "checkMasterPlaylist"}
        /\ PendingFns \subseteq {"watch"}
        /\ watcher.lastChunkIndex = Unset /\ watcher.chunkVerifyCount = 0
        /\ (lastOp.op = "watch" /\ "metadata" \notin lastOp.failures) =>
              /\ lastOp.jobStarted = "final"
              /\ CopiesIn("downloadAudio", lastOp.calls) = 1
              /\ job.pc = "getFinalPlaylistUrl" /\ ~job.live
              /\ watcher.dynamicPlaylistUrl = "url"

\* watch() fetched the metadata of a running broadcast and started the job
C24_Witness ==
    /\ opts.url /\ lastOp.op = "watch" /\ MetadataAnswers = <<"Running">>
    /\ lastOp.jobStarted = "final" /\ job.pc = "getFinalPlaylistUrl"
    /\ pending = EmptyBag

\* the phrase list of the job whose scan finished last, had its file been
\* scanned with no other scan in the process
ScannedAlone ==
    ScanAgain(Returned.file, Returned.live, Returned.timeStarted,
              Returned.timeStarted + Returned.ms_space_elapsed,
              [k \in 1..Len(keywords) |-> 0])

\* C25: the caption scans of two broadcasts do not affect each other: in
\* whatever order the callbacks of the two streams run, each job ends with
\* the phrase list that the scan of its file alone produces, and between
\* callbacks every pattern of the keyword table has lastIndex 0.
C25_ScansIsolated ==
    /\ \A k \in 1..Len(keywords) : lastIndex[k] = 0
    /\ lastOp.op \in {"captions.finish", "peer.captions.finish"} =>
          Returned.phrases = ScannedAlone

\* the other job finished a scan of two cues, the first matching two rules
\* and the second one rule, while this job had scanned the first of its two
\* cues, which matches two rules too
C25_Witness ==
    /\ lastOp.op = "peer.captions.finish" /\ Len(Returned.phrases) = 2
    /\ Returned.phrases_matched = 3
    /\ Returned.file[2].text = <<"A","F","P","A","C">>
    /\ job.pc = "captions.stream" /\ Len(job.scanned) = 1 /\ Len(job.stream) = 1
    /\ job.phrases_matched = 2

\* C26: the live stream source is fetched successfully at most once: once
\* liveStreamStatus is set no pass of initData requests it again, with or
\* without success, and every pass that gets past the request takes the
\* dynamic playlist url from the stored value.
C26_LiveStreamFetchedOnce ==
    /\ hist.liveStreamFetched <= 1
    /\ watcher.liveStreamStatus <=> hist.liveStreamFetched = 1
    /\ (BagIn("getLiveVideoStreamStatus", lastOp.calls) /\ watcher.liveStreamStatus) =>
          /\ CopiesIn("getLiveVideoStreamStatus", lastOp.calls) = 1
          /\ "liveStreamStatus" \notin lastOp.failures
    /\ (lastOp.op = "watch" /\ Len(PlainWebhooks) >= 1) =>
          /\ watcher.liveStreamStatus
          /\ watcher.dynamicPlaylistUrl = "location"

\* a retry of watch() after a failed chat-access fetch: no request for the
\* live stream source, the url taken from the stored value
C26_Witness ==
    /\ lastOp.op = "watch" /\ watcher.liveStreamStatus /\ hist.liveStreamFetched = 1
    /\ ~BagIn("getLiveVideoStreamStatus", lastOp.calls)
    /\ BagIn("getAccessChat", lastOp.calls) /\ BagIn("sendWebhooks", lastOp.calls)
    /\ watcher.dynamicPlaylistUrl = "location"

\* C27: the mode of a job fixes the parameters of its stages.  A live
\* preview spawns ffmpeg with "-t 30" on the url the job was constructed
\* with (the dynamic playlist) and whisper with base.en; a final job resolves
\* the master playlist url before anything else, spawns ffmpeg on that url
\* without a duration limit, and whisper with small.en.
C27_ModeFixesStageParameters ==
    /\ job.ffmpeg = "pending" => job.ffmpegArgs = <<>>
    /\ job.ffmpeg # "pending" =>
          job.ffmpegArgs = IF job.live THEN <<"-t", "30", "-i", "originUrl">>
                           ELSE <<"-i", "masterUrl">>
    /\ job.live => job.playlistUrl = "originUrl"
    /\ (~job.live /\ job.pc = "getFinalPlaylistUrl") =>
          job.playlistUrl = "originUrl" /\ job.ffmpeg = "pending"
    /\ job.whisperArgs =
          IF ~job.whisperSpawned THEN <<>>
          ELSE IF job.live THEN <<"--model", "base.en">>
          ELSE <<"--model", "small.en">>

\* a final job transcribing with small.en what ffmpeg read from the master url
C27_Witness ==
    /\ ~job.live /\ job.pc = "whisper"
    /\ job.ffmpegArgs = <<"-i", "masterUrl">>
    /\ job.whisperArgs = <<"--model", "small.en">>

\* C28: a step that starts a final capture job while a watermark >= 1 is
\* recorded is a check of the master playlist whose request succeeded and
\* which found at least as many chunks as the watermark, or found the retry
\* counter above APP_PLAYLIST_CHUNK_VERIFY_MAX_RETRY; the final jobs that
\* watch() starts (state ENDED, url option, force option) are started while
\* no watermark is recorded.
C28_FinalJobIsVerified ==
    lastOp.jobStarted = "final" =>
        /\ lastOp.op \in {"watch", "checkMasterPlaylist"}
        /\ lastOp.op = "watch" => watcher.lastChunkIndex = Unset
        /\ watcher.lastChunkIndex >= 1 =>
              /\ lastOp.op = "checkMasterPlaylist" /\ lastOp.fetch = "ok"
              /\ \/ lastOp.masterChunkSize >= watcher.lastChunkIndex
                 \/ watcher.chunkVerifyCount > APP_PLAYLIST_CHUNK_VERIFY_MAX_RETRY

\* the master playlist is still short of the watermark, but the retry
\* counter is above the maximum: the final job is started
C28_Witness ==
    /\ lastOp.jobStarted = "final" /\ lastOp.op = "checkMasterPlaylist"
    /\ watcher.lastChunkIndex = 4 /\ lastOp.masterChunkSize = 3
    /\ watcher.chunkVerifyCount > APP_PLAYLIST_CHUNK_VERIFY_MAX_RETRY
    /\ job.pc = "getFinalPlaylistUrl"

\* the continuations of the watch loop: those pending (a timer, a call
\* waiting for its request) and the one that is running, awaiting the end
\* of the capture job it started
LoopContinuations ==
    BagCardinality(pending) + (IF awaiting # "none" THEN 1 ELSE 0)

\* C29: at most one continuation of the watch loop (retry of watch(),
\* dynamic poll, check of the master playlist) is pending or running at any
\* time, and every pending continuation is one of these three.
C29_SingleLoop ==
    /\ LoopContinuations <= 1
    /\ PendingFns \subseteq {"watch", "checkDynamicPlaylist", "checkMasterPlaylist"}

\* a check of the master playlist found the broadcast RUNNING again and
\* handed back to the dynamic poll: one timer, no re-check of the master
C29_Witness ==
    /\ lastOp.op = "checkMasterPlaylist" /\ BagIn("processDownload", lastOp.calls)
    /\ watcher.metadata = "Running" /\ watcher.lastChunkIndex >= 1
    /\ pending = SetToBag({DynamicTimer}) /\ awaiting = "none"

\* the last step refreshed the metadata, and the state the refresh reported
Refreshed ==
    /\ Len(MetadataAnswers) >= 1
    /\ MetadataAnswers[Len(MetadataAnswers)] \in MetadataState
    /\ watcher.metadata = MetadataAnswers[Len(MetadataAnswers)]
InLoop ==
    BagIn("processDownload", lastOp.calls) \/ BagIn("processLiveDownload", lastOp.calls)

\* C30: a capture job started by processLiveDownload or processDownload
\* follows a successful metadata refresh by the same handler, and its mode
\* agrees with the refreshed state: a live job only if the state is RUNNING,
\* a final job only if it is not; a live job is started by processLiveDownload
\* only; when processDownload finds the state RUNNING it starts no job and
\* sets exactly one timer, for the next dynamic poll.
C30_JobModeAgreesWithState ==
    /\ lastOp.jobStarted = "live" => BagIn("processLiveDownload", lastOp.calls)
    /\ (InLoop /\ lastOp.jobStarted # "none") =>
          /\ Refreshed
          /\ lastOp.jobStarted = "live" <=> watcher.metadata = "Running"
          /\ lastOp.jobStarted = "final" <=> BagIn("processDownload", lastOp.calls)
    /\ (BagIn("processDownload", lastOp.calls) /\ Refreshed /\ watcher.metadata = "Running") =>
          /\ lastOp.jobStarted = "none"
          /\ ~BagIn("downloadAudio", lastOp.calls)
          /\ lastOp.timers = SetToBag({DynamicTimer})
    /\ (InLoop /\ ~Refreshed) =>
          /\ lastOp.jobStarted = "none"
          /\ ~BagIn("downloadAudio", lastOp.calls)

\* after a preview earlier in the watch, the check of the master playlist
\* refreshed the metadata to ENDED and started the final job
C30_Witness ==
    /\ lastOp.op = "checkMasterPlaylist" /\ MetadataAnswers = <<"Ended">>
    /\ lastOp.jobStarted = "final" /\ ~job.live /\ hist.liveStarted
    /\ watcher.metadata = "Ended"

\* C31: the notification sent when a capture job has delivered phrases
\* attaches the audio file written by that job: its file name has the
\* '-live' suffix if and only if the job was a live preview.
C31_AttachmentIsJobsFile ==
    lastOp.result = "true" =>
        \A i \in 1..Len(lastOp.webhooks) :
            /\ lastOp.webhooks[i].audioFile = Returned.ffmpegFile
            /\ lastOp.webhooks[i].audioFile = "filename-live.ogg" <=> Returned.live

\* C32: a check of the master playlist whose request fails leaves
\* chunkVerifyCount, the watermark and the rest of the watcher unchanged,
\* requests no metadata, starts no capture job, and sets exactly one timer:
\* the next check after APP_PLAYLIST_REFRESH_INTERVAL.
C32_MasterFailureKeepsBudget ==
    [][(lastOp'.op = "checkMasterPlaylist" /\ lastOp'.fetch = "error") =>
          /\ watcher' = watcher
          /\ job' = job /\ awaiting' = awaiting
          /\ lastOp'.jobStarted = "none"
          /\ lastOp'.calls = EmptyBag
          /\ lastOp'.timers = SetToBag({MasterTimer})
          /\ pending' = SetToBag({MasterTimer})]_vars

\* the request failed after one check had fallen short of a watermark of 4
C32_Witness ==
    /\ lastOp.op = "checkMasterPlaylist" /\ lastOp.fetch = "error"
    /\ watcher.lastChunkIndex = 4 /\ watcher.chunkVerifyCount = 1
    /\ pending = SetToBag({MasterTimer})

\* C33: at most one download() is in progress at any time: a capture job is
\* started only when the download() of the job before it has settled; so a
\* final job is never started while a live preview is running, and a live
\* preview is started only into an empty job slot.
C33_OneDownloadAtATime ==
    [][lastOp'.jobStarted # "none" =>
          /\ ~JobRunning
          /\ awaiting = "none" /\ awaiting' # "none"
          /\ lastOp'.jobStarted = "live" => ~watcher.downloader]_vars

\* a final job started by the check of the master playlist after a live
\* preview of the same broadcast had run
C33_Witness ==
    /\ lastOp.jobStarted = "final" /\ lastOp.op = "checkMasterPlaylist"
    /\ hist.liveStarted /\ ~job.live /\ JobRunning
    /\ awaiting = "processDownload" /\ pending = EmptyBag

\* a dynamic poll refreshed the metadata, found the broadcast RUNNING and
\* called downloadAudio(true)
PreviewDue ==
    /\ lastOp.op = "checkDynamicPlaylist"
    /\ BagIn("processLiveDownload", lastOp.calls)
    /\ Refreshed /\ watcher.metadata = "Running"

\* C34: a live preview whose download() resolves false, or true without a
\* phrase, empties the job slot and the polling goes on; one that resolves
\* true with a phrase stays in the slot.  A poll that is due to start a
\* preview (chunks with a watermark >= 1, state RUNNING) starts one unless
\* the slot is held by a job that was not cleared, and no preview is
\* started once a preview has delivered a phrase.
C34_PreviewSlotLifecycle ==
    /\ (lastOp.result \in {"true", "false"} /\ Returned.live) =>
          /\ DynamicTimer \in BagToSet(pending)
          /\ IF lastOp.result = "true" /\ Len(Returned.phrases) >= 1
             THEN /\ watcher.downloader /\ job.live /\ job.pc = "settled"
                  /\ job.phrases = Returned.phrases /\ hist.liveKept
             ELSE ~watcher.downloader /\ job = NoJob
    /\ lastOp.jobStarted = "live" => (PreviewDue /\ ~hist.liveKept)
    /\ (PreviewDue /\ lastOp.jobStarted = "none") =>
          /\ watcher.downloader /\ job.live /\ job.pc = "settled"
          /\ hist.liveKept \/ job.result = "threw"
    /\ hist.liveKept => hist.liveStarted

\* a preview has delivered a phrase and holds the slot: a later poll that
\* finds chunks while the broadcast is RUNNING starts no preview
C34_Witness ==
    /\ PreviewDue /\ lastOp.jobStarted = "none" /\ hist.liveKept
    /\ watcher.downloader /\ job.live /\ Len(job.phrases) >= 1
    /\ watcher.lastChunkIndex >= 1
    /\ pending = SetToBag({DynamicTimer})

\* C35: chunkVerifyCount never decreases: it grows by one in a check of the
\* master playlist that reschedules and is left alone by every other step,
\* among them the processDownload that sends the watcher back to the dynamic
\* polling and the 404 hand-off that follows it.
C35_VerifyCountNeverReset ==
    [][watcher'.chunkVerifyCount =
         IF MasterRescheduled' THEN watcher.chunkVerifyCount + 1
         ELSE watcher.chunkVerifyCount]_vars

\* a 404 hand-off after the watcher was sent back to the dynamic polling: the
\* verification starts with a part of the retry budget already used
C35_Witness ==
    /\ lastOp.op = "checkDynamicPlaylist" /\ lastOp.fetch = "404"
    /\ "checkMasterPlaylist" \in PendingFns
    /\ watcher.chunkVerifyCount >= 1
    /\ watcher.metadata = "Running"

\* C36: a dynamic poll that succeeds with a text holding no chunk line (the
\* empty text, or a text of other lines only) records no failure, leaves the
\* watcher (its watermark included) and the job slot as they were, requests
\* no metadata, calls no other function, starts no capture job, and sets
\* exactly one timer: the next dynamic poll.
C36_ChunklessPollChangesNothing ==
    [][(lastOp'.op = "checkDynamicPlaylist" /\ lastOp'.noChunks) =>
          /\ lastOp'.fetch = "ok" /\ lastOp'.failures = {}
          /\ watcher' = watcher /\ hist' = hist
          /\ job' = job /\ awaiting' = awaiting
          /\ lastOp'.metadata = <<>> /\ lastOp'.calls = EmptyBag
          /\ lastOp'.jobStarted = "none"
          /\ lastOp'.timers = SetToBag({DynamicTimer})
          /\ CopiesIn(DynamicTimer, pending') = 1
          /\ "checkMasterPlaylist" \notin PendingFns']_vars

\* a poll found no chunk after a watermark of 3 had been recorded while the
\* broadcast was RUNNING and no capture job held the slot
C36_Witness ==
    /\ lastOp.op = "checkDynamicPlaylist" /\ lastOp.noChunks
    /\ watcher.lastChunkIndex = 3 /\ hist.lastFound = 3
    /\ watcher.metadata = "Running" /\ ~watcher.downloader
    /\ pending = SetToBag({DynamicTimer})

\* the continuations of fn for chunk k that are pending, with multiplicity
RECURSIVE CountOf(_, _, _)
CountOf(S, fn, k) ==
    IF S = {} THEN 0
    ELSE LET t == CHOOSE x \in S : TRUE
         IN (IF t.fn = fn /\ t.k = k THEN CopiesIn(t, userList.pending) ELSE 0)
            + CountOf(S \ {t}, fn, k)
Loops(k) == CountOf(BagToSet(userList.pending), "getSpaces", k)
WatchPending == CountOf(BagToSet(userList.pending), "watch", 0)
UserListChunks == 1..Len(userList.usernameChunks)

\* C37: every chunk has no loop while watch() is pending and exactly one
\* from the pass of watch() that succeeds: a getSpaces(ids) that has settled,
\* with a response or with a failure, has set exactly one timer for
\* getSpaces of the same ids; a pass of watch() that fails calls no
\* getSpaces and sets exactly one retry of watch() with a delay of at least
\* 5000 ms; the pass that succeeds calls getSpaces once for each chunk and
\* sets no retry.
C37_OneLoopPerChunk ==
    /\ \A k \in UserListChunks :
         /\ userList.started[k] <= 1
         /\ Loops(k) = userList.started[k]
         /\ userList.started[k] = IF WatchPending = 0 THEN 1 ELSE 0
    /\ WatchPending <= 1
    /\ userList.fx.op = "getSpaces" =>
         /\ userList.fx.calls = EmptyBag
         /\ userList.fx.timers =
              SetToBag({UserListCont("getSpaces", userList.fx.k, userList.fx.ids,
                                     "Util.getUserRefreshInterval()")})
         /\ userList.fx.ids =
              idChunk(userList.usernameChunks[userList.fx.k], userList.users)
    /\ (userList.fx.op = "watch" /\ userList.fx.failed) =>
         /\ userList.fx.calls = EmptyBag
         /\ userList.fx.timers = SetToBag({UserListCont("watch", 0, <<>>, "timeoutMs")})
         /\ userList.fx.timeoutMs >= 5000
    /\ (userList.fx.op = "watch" /\ ~userList.fx.failed) =>
         /\ userList.fx.timers = EmptyBag
         /\ BagCardinality(userList.fx.calls) = Len(userList.usernameChunks)

\* watch() failed twice before it succeeded for two chunks; the getSpaces of
\* the second chunk has just failed and has set its next poll
C37_Witness ==
    /\ Len(userList.usernameChunks) = 2
    /\ userList.failures = 2
    /\ \A k \in UserListChunks : userList.started[k] = 1 /\ Loops(k) = 1
    /\ userList.fx.op = "getSpaces" /\ userList.fx.k = 2 /\ userList.fx.failed
    /\ userList.fx.ids = <<"2">>
    /\ WatchPending = 0

====
